---- MODULE Spec2Model ----
(***************************************************************************)
(* Backtesting simulation subsystem of binance-trade-bot:                  *)
(*   DataLoader            (futures_backtest.py, month-bucket candle cache)*)
(*   BacktestAPIManager    (futures_backtest.py, virtual futures exchange) *)
(*   BacktestEngine        (futures_backtest.py, replay driver)            *)
(*   SpotBacktestAPIManager(spot_backtest.py, virtual spot exchange)       *)
(*   main                  (run_backtest.py, the run's caller)             *)
(*                                                                         *)
(* Python floats are modelled as exact rationals [n, d] in lowest terms.   *)
(* Times are milliseconds, as in the source.                               *)
(***************************************************************************)
EXTENDS Integers, Sequences, FiniteSets, TLC

VARIABLES
    upstream,       \* exchange's historical bars: <<symbol, interval>> -> Seq(Candle)
    memory_cache,   \* DataLoader.memory_cache: cache_key -> Seq(Candle)
    disk_cache,     \* the .pkl files of cache_dir: cache_key -> Seq(Candle)
    requests,       \* number of binance_client.futures_klines calls issued
    current_time,   \* BacktestAPIManager.current_time (None until set)
    balance,        \* BacktestAPIManager.balance
    positions,      \* BacktestAPIManager.positions: position_key -> Position
    trades,         \* BacktestAPIManager.trades
    leverage,       \* BacktestAPIManager.leverage
    timestamps,     \* BacktestEngine.run: timestamps
    i,              \* BacktestEngine.run: loop index (1-based position in timestamps)
    error_count,    \* BacktestEngine.run: error_count
    equity_curve,   \* BacktestEngine.equity_curve
    pc,             \* run position: "start","loop","scout","done","failed","aborted","interrupted"; "api" outside a run
    ops,            \* exchange operations performed by the strategy so far
    last,           \* the last exchange / loader call and its outcome
    tick_start,     \* accounting state when the current tick's callback was entered
    caller,         \* what main() of run_backtest.py holds after engine.run ended
    balances,       \* SpotBacktestAPIManager.balances
    spot_loader,    \* which data_loader the spot manager was constructed with
    mode,           \* "futures": a BacktestEngine run; "klines", "spot", "loader": a manager or the loader driven directly
    run_args,       \* arguments of BacktestEngine.run and what the strategy declares
    schedule,       \* ticks whose callback raises (Free: any tick may raise)
    strategy,       \* fields of the strategy object itself (NoStrategy: a strategy given by its orders only)
    prefetch,       \* warm_cache.py: write_queue, cache, cache_lock, stop_event and its threads (NoPrefetch: not running)
    download        \* the frame of one _download_from_binance call run page by page (NoDownload: none)

vars == <<upstream, memory_cache, disk_cache, requests, current_time, balance,
          positions, trades, leverage, timestamps, i, error_count, equity_curve,
          pc, ops, last, tick_start, caller, balances, spot_loader, mode, run_args,
          schedule, strategy, prefetch, download>>

loaderVars == <<upstream, memory_cache, disk_cache, requests>>
exchangeVars == <<current_time, balance, positions, trades, leverage>>
engineVars == <<timestamps, i, error_count, equity_curve, pc, tick_start, caller>>
spotVars == <<balances, spot_loader>>
(* what the engine, the exchange and the loader never write *)
inputVars == <<mode, run_args, schedule, strategy, prefetch, download>>

(* Python's None; NoTime is the None of current_time *)
None == [none |-> TRUE]
NoTime == 0 - 1

----------------------------------------------------------------------------
(* Bounds of the model *)

MaxTicks == 2          \* longest timestamp sequence of the trading specification
MaxOps == 2            \* exchange operations a strategy performs over one run
MaxQty == 2            \* largest order quantity
HorizonMinutes == 12   \* minutes of history the upstream holds
MonthMinutes == 6      \* length of a calendar month bucket, in minutes
PageLimit == 2         \* bars per download page (1000 in the source)
MaxLimit == 3          \* largest `limit` a strategy passes to futures_klines
WarmupLimit == 2       \* `limit` of the warm-up request (100 in the source)

----------------------------------------------------------------------------
(* Exact rational arithmetic standing for Python float arithmetic *)

Abs(x) == IF x < 0 THEN -x ELSE x

RECURSIVE GCD(_, _)
GCD(a, b) == IF b = 0 THEN a ELSE GCD(b, a % b)

Rat(n, d) ==
    LET g == GCD(Abs(n), Abs(d))
        s == IF d < 0 THEN -1 ELSE 1
    IN  IF n = 0 THEN [n |-> 0, d |-> 1]
        ELSE [n |-> (s * n) \div g, d |-> (s * d) \div g]

R(k) == [n |-> k, d |-> 1]
RAdd(a, b) == Rat(a.n * b.d + b.n * a.d, a.d * b.d)
RSub(a, b) == Rat(a.n * b.d - b.n * a.d, a.d * b.d)
RMul(a, b) == Rat(a.n * b.n, a.d * b.d)
RDiv(a, b) == Rat(a.n * b.d, a.d * b.n)      \* defined for b.n # 0 only
RLt(a, b) == a.n * b.d < b.n * a.d
RLe(a, b) == a.n * b.d <= b.n * a.d
RIsZero(a) == a.n = 0

(* str(float) and float(str): Python's repr round-trips a float exactly *)
str(x) == [str |-> x]
float(s) == s.str

(* list[-n:] of Python: the last n elements, the whole list when n = 0 *)
LastN(s, n) == IF n = 0 \/ Len(s) <= n THEN s ELSE SubSeq(s, Len(s) - n + 1, Len(s))

----------------------------------------------------------------------------
(* Candles and the upstream market-data source *)

Symbols == {"BTCUSDT", "ETHUSDT"}
Intervals == {"1m", "5m"}

interval_to_ms(interval) ==
    CASE interval = "1m" -> 60 * 1000
      [] interval = "3m" -> 3 * 60 * 1000
      [] interval = "5m" -> 5 * 60 * 1000
      [] interval = "15m" -> 15 * 60 * 1000
      [] interval = "30m" -> 30 * 60 * 1000
      [] interval = "1h" -> 60 * 60 * 1000
      [] interval = "2h" -> 2 * 60 * 60 * 1000
      [] interval = "4h" -> 4 * 60 * 60 * 1000
      [] interval = "1d" -> 24 * 60 * 60 * 1000
      [] OTHER -> 60 * 1000

MinuteMs == 60 * 1000
MonthMs == MonthMinutes * MinuteMs
HorizonMs == HorizonMinutes * MinuteMs

(* close price of the bar of `symbol` opening at minute m, in price path `path` *)
PriceTable == <<100, 110, 90, 120>>
SteepTable == <<100, 40>>              \* a path that loses 60% and regains it, bar by bar
SteepPath == 4
PriceAt(path, symbol, m) ==
    LET k == (m + (IF symbol = "BTCUSDT" THEN 0 ELSE 1) + path) % Len(PriceTable)
    IN  IF path = SteepPath
        THEN SteepTable[(m % Len(SteepTable)) + 1]
        ELSE PriceTable[k + 1]

(* Candle.from_binance applied to the raw bar the exchange serves *)
from_binance(symbol, interval, open_time, path) ==
    LET p == R(PriceAt(path, symbol, open_time \div MinuteMs))
    IN  [open_time |-> open_time, open |-> p, high |-> p, low |-> p, close |-> p,
         volume |-> R(1), close_time |-> open_time + interval_to_ms(interval) - 1]

RECURSIVE BarsFrom(_, _, _, _, _)
BarsFrom(symbol, interval, t, path, gaps) ==
    IF t >= HorizonMs THEN <<>>
    ELSE (IF t \in gaps THEN <<>> ELSE <<from_binance(symbol, interval, t, path)>>)
         \o BarsFrom(symbol, interval, t + interval_to_ms(interval), path, gaps)

(* the bars the exchange holds: a regular grid, minus the open times in gaps *)
UpstreamData(path, gaps) ==
    [k \in Symbols \X Intervals |-> BarsFrom(k[1], k[2], 0, path, gaps)]

----------------------------------------------------------------------------
(* Naive local datetimes and the epoch: datetime.timestamp() and
   datetime.fromtimestamp() in the time zone of the process.  A naive datetime
   is the wall-clock reading in milliseconds.  "fixed": a zone with a constant
   UTC offset; "spring": the clock jumps forward by DstShift minutes at SpringAt;
   "autumn": the clock falls back by DstShift minutes when it reaches AutumnAt. *)

StartMinute == 2                       \* start_date, in minutes of the horizon
StartMs == StartMinute * MinuteMs

DstShift == 2                          \* minutes the clock jumps (60 in a real zone)
DstShiftMs == DstShift * MinuteMs
Zones == {"fixed", "spring", "autumn"}

(* the first wall-clock reading skipped by the spring transition, and the
   reading at which the autumn transition puts the clock back *)
SpringAt == StartMs - (DstShift - 1) * MinuteMs
AutumnAt == StartMs + MinuteMs

(* datetime.timestamp() of a naive datetime (fold = 0): a reading the spring
   transition skips is taken with the offset before it, a reading the autumn
   transition repeats is taken as its first occurrence *)
timestamp(wall) ==
    CASE run_args.zone = "spring" ->
            IF wall < SpringAt + DstShiftMs THEN wall ELSE wall - DstShiftMs
      [] run_args.zone = "autumn" ->
            IF wall < AutumnAt THEN wall - DstShiftMs ELSE wall
      [] OTHER -> wall

(* datetime.fromtimestamp(ms / 1000): the wall-clock reading at an instant *)
fromtimestamp(ms) ==
    CASE run_args.zone = "spring" -> IF ms < SpringAt THEN ms ELSE ms + DstShiftMs
      [] run_args.zone = "autumn" ->
            IF ms < AutumnAt - DstShiftMs THEN ms + DstShiftMs ELSE ms
      [] OTHER -> ms

----------------------------------------------------------------------------
(* DataLoader (futures_backtest.py) *)

(* calendar month of a timestamp: datetime.fromtimestamp(ms / 1000).(year, month) *)
MonthOf(ms) == fromtimestamp(ms) \div MonthMs

cache_key(symbol, interval, month) == <<symbol, interval, month>>

(* binance_client.futures_klines(symbol, interval, startTime, endTime, limit):
   the first `limit` bars whose open_time lies in [startTime, endTime] *)
UpstreamPage(symbol, interval, startTime, endTime, limit) ==
    LET InRange(k) == startTime <= k.open_time /\ k.open_time <= endTime
        bars == IF <<symbol, interval>> \in DOMAIN upstream
                THEN upstream[<<symbol, interval>>] ELSE <<>>
        sel == SelectSeq(bars, InRange)
    IN  IF Len(sel) <= limit THEN sel ELSE SubSeq(sel, 1, limit)

(* the cursor had it moved to the last bar received *)
next_start_same_bar(raw_klines) == raw_klines[Len(raw_klines)].open_time

(* current_start = klines[-1].close_time + 1 *)
next_start(raw_klines) == raw_klines[Len(raw_klines)].close_time + 1

(* the page loop of _download_from_binance; the request number failAt raises
   BinanceAPIException (failAt = 0: no request raises) *)
RECURSIVE download_loop(_, _, _, _, _, _, _)
RECURSIVE download_page(_, _, _, _, _, _, _)
download_loop(symbol, interval, current_start, end_ms, all_klines, page, failAt) ==
    IF ~(current_start < end_ms)
    THEN [klines |-> all_klines, reqs |-> page - 1, failed |-> FALSE]
    ELSE IF page = failAt
    THEN [klines |-> all_klines, reqs |-> page, failed |-> TRUE]
    ELSE download_page(symbol, interval, end_ms, all_klines, page, failAt,
                       UpstreamPage(symbol, interval, current_start, end_ms, PageLimit))

(* one answered request: an empty page ends the loop, else the cursor moves to
   just after the last bar received *)
download_page(symbol, interval, end_ms, all_klines, page, failAt, raw_klines) ==
    IF raw_klines = <<>>
    THEN [klines |-> all_klines, reqs |-> page, failed |-> FALSE]
    ELSE download_loop(symbol, interval, next_start(raw_klines),
                       end_ms, all_klines \o raw_klines, page + 1, failAt)

download_from_binance(symbol, interval, start_ms, end_ms, failAt) ==
    download_loop(symbol, interval, start_ms, end_ms, <<>>, 1, failAt)

(* the download handed on without being cached *)
store_download_uncached(ld, key, dl) ==
    [klines |-> dl.klines, ld |-> [ld EXCEPT !.reqs = ld.reqs + dl.reqs],
     tier |-> "network", failed |-> dl.failed]

(* the download put in the memory cache without being pickled to the file *)
store_download_memory_only(ld, key, dl) ==
    [klines |-> dl.klines,
     ld |-> [mem |-> (key :> dl.klines) @@ ld.mem,
             disk |-> ld.disk,
             reqs |-> ld.reqs + dl.reqs],
     tier |-> "network", failed |-> dl.failed]

(* what _get_month_klines does with the download dl: pickle it to the cache
   file, put it in the memory cache, return it *)
store_download(ld, key, dl) ==
    [klines |-> dl.klines,
     ld |-> [mem |-> (key :> dl.klines) @@ ld.mem,
             disk |-> (key :> dl.klines) @@ ld.disk,
             reqs |-> ld.reqs + dl.reqs],
     tier |-> "network", failed |-> dl.failed]

(* a loader state: [mem, disk, reqs]; client: whether binance_client is set *)
get_month_klines(ld, client, symbol, interval, month, failAt) ==
    LET key == cache_key(symbol, interval, month)
    IN  IF key \in DOMAIN ld.mem
        THEN [klines |-> ld.mem[key], ld |-> ld, tier |-> "memory", failed |-> FALSE]
        ELSE IF key \in DOMAIN ld.disk
        THEN [klines |-> ld.disk[key],
              ld |-> [ld EXCEPT !.mem = (key :> ld.disk[key]) @@ ld.mem],
              tier |-> "disk", failed |-> FALSE]
        ELSE IF client
        THEN store_download(ld, key,
                            download_from_binance(symbol, interval,
                                                  timestamp(month * MonthMs),
                                                  timestamp((month + 1) * MonthMs),
                                                  failAt))
        ELSE [klines |-> <<>>, ld |-> ld, tier |-> "none", failed |-> FALSE]

(* the month loop of get_klines; fails: month -> request number that raises *)
(* log: per month visited, how the bucket was resolved *)
RECURSIVE month_loop(_, _, _, _, _, _, _, _, _)
RECURSIVE month_next(_, _, _, _, _, _, _, _, _)
month_loop(ld, client, symbol, interval, month, end_month, all_klines, fails, log) ==
    IF ~(month <= end_month)
    THEN [klines |-> all_klines, ld |-> ld, log |-> log]
    ELSE month_next(get_month_klines(ld, client, symbol, interval, month,
                                     IF month \in DOMAIN fails THEN fails[month] ELSE 0),
                    client, symbol, interval, month, end_month, all_klines, fails, log)

(* all_klines.extend(month_klines), then the next month *)
month_next(r, client, symbol, interval, month, end_month, all_klines, fails, log) ==
    month_loop(r.ld, client, symbol, interval, month + 1, end_month,
               all_klines \o r.klines, fails,
               Append(log, [key |-> cache_key(symbol, interval, month), tier |-> r.tier,
                            failed |-> r.failed, klines |-> r.klines]))

(* the exact range: start_ms <= open_time <= end_ms *)
in_range(r, start_ms, end_ms) ==
    LET InRange(k) == start_ms <= k.open_time /\ k.open_time <= end_ms
    IN  [klines |-> SelectSeq(r.klines, InRange), ld |-> r.ld, log |-> r.log]

get_klines(ld, client, symbol, interval, start_ms, end_ms, fails) ==
    in_range(month_loop(ld, client, symbol, interval, MonthOf(start_ms),
                        MonthOf(end_ms), <<>>, fails, <<>>),
             start_ms, end_ms)

Loader == [mem |-> memory_cache, disk |-> disk_cache, reqs |-> requests]

Months == (0 - 1) .. (HorizonMinutes \div MonthMinutes)
NoFail == [m \in Months |-> 0]

(* the request that raises BinanceAPIException, per month: none, or request
   1 or 2 of the download of month 0 or of month 1 *)
FailChoices ==
    {NoFail} \cup {[NoFail EXCEPT ![m] = k] : m \in {0, 1}, k \in {1, 2}}

----------------------------------------------------------------------------
(* BacktestAPIManager (futures_backtest.py) *)

(* one row of the Binance kline format *)
RawKline(k) == <<k.open_time, str(k.open), str(k.high), str(k.low), str(k.close),
                 str(k.volume), k.close_time>>

(* the filter left out: every bar fetched is handed on *)
completed_unfiltered(klines, ct) == klines

(* completed bars only: close_time < current_time *)
completed(klines, ct) ==
    LET Done(k) == k.close_time < ct
    IN  SelectSeq(klines, Done)

(* RawKline over a list *)
raw_format(klines) == [j \in 1..Len(klines) |-> RawKline(klines[j])]

klines_result_strict(r, ct, limit) ==
    IF Len(completed(r.klines, ct)) < limit \/ \E j \in DOMAIN r.log : r.log[j].failed
    THEN [raised |-> TRUE, klines |-> <<>>, ld |-> r.ld, log |-> r.log]
    ELSE [raised |-> FALSE, klines |-> raw_format(LastN(completed(r.klines, ct), limit)),
          ld |-> r.ld, log |-> r.log]

(* the tail of futures_klines: filter, keep the last `limit`, convert *)
klines_result(r, ct, limit) ==
    [raised |-> FALSE, klines |-> raw_format(LastN(completed(r.klines, ct), limit)),
     ld |-> r.ld, log |-> r.log]

futures_klines(ld, client, ct, symbol, interval, limit, fails) ==
    IF ct = NoTime
    THEN [raised |-> TRUE, klines |-> <<>>, ld |-> ld, log |-> <<>>]
    ELSE LET interval_ms == interval_to_ms(interval)
             current_interval_start == (ct \div interval_ms) * interval_ms
             end_time == current_interval_start
             start_time == end_time - (limit * interval_ms)
         IN  klines_result(get_klines(ld, client, symbol, interval, start_time, end_time,
                                      fails), ct, limit)

(* the close of the last row, None without rows or when futures_klines raised *)
mark_price_of(r, ld) ==
    IF r.raised THEN [price |-> None, ld |-> ld]
    ELSE IF r.klines # <<>>
    THEN [price |-> float(r.klines[Len(r.klines)][5]), ld |-> r.ld]
    ELSE [price |-> None, ld |-> r.ld]

get_mark_price(ld, client, ct, symbol, fails) ==
    mark_price_of(futures_klines(ld, client, ct, symbol, "1m", 1, fails), ld)

(* Position.unrealized_pnl *)
unrealized_pnl(pos, current_price) ==
    IF pos.side = "LONG"
    THEN RMul(RSub(current_price, pos.entry_price), pos.quantity)
    ELSE RMul(RSub(pos.entry_price, current_price), pos.quantity)

(* Python truthiness of an Optional[float]: None and 0.0 are false *)
Truthy(price) == price # None /\ ~RIsZero(price)

position_key(symbol, side) == <<symbol, side>>

OrderId(ct, symbol, action) == [orderId |-> <<"BT", ct, symbol, action>>]
ZeroDivisionError == [raised |-> "ZeroDivisionError"]

(* the full notional taken as margin *)
margin_cost_unlevered(price, quantity, lev) == RMul(price, quantity)

(* margin = notional / leverage *)
margin_cost(price, quantity, lev) == RDiv(RMul(price, quantity), R(lev))

(* no clamping: the requested quantity is closed *)
clamp_none(quantity, held) == quantity

(* the close quantity after clamping to the held quantity *)
clamp(quantity, held) == IF RLt(held, quantity) THEN held ELSE quantity

(* the whole margin handed back whatever part is closed *)
returned_margin_whole(pos, qty) == pos.total_margin

(* margin handed back for closing qty of pos, in proportion *)
returned_margin_of(pos, qty) == RMul(pos.total_margin, RDiv(qty, pos.quantity))

(* realized pnl for closing qty of pos at price *)
realized_pnl_of(pos, price, qty) == RMul(unrealized_pnl(pos, price), RDiv(qty, pos.quantity))

(* the state an accepted open leaves: margin debited, position created or merged,
   OPEN trade appended; ZeroDivisionError when the merged quantity is 0 *)
open_accept(ex, side, symbol, quantity, price, cost) ==
    LET key == position_key(symbol, side)
        debited == [ex EXCEPT !.balance = RSub(ex.balance, cost)]
        trade == [timestamp |-> ex.current_time, symbol |-> symbol, side |-> side,
                  action |-> "OPEN", quantity |-> quantity, price |-> price,
                  pnl |-> R(0)]
    IN  IF key \in DOMAIN ex.positions
        THEN LET old_pos == ex.positions[key]
                 total_quantity == RAdd(old_pos.quantity, quantity)
             IN  IF RIsZero(total_quantity)
                 THEN [result |-> ZeroDivisionError, ex |-> debited]
                 ELSE LET avg_price ==
                            RDiv(RAdd(RMul(old_pos.entry_price, old_pos.quantity),
                                      RMul(price, quantity)), total_quantity)
                          new_pos == [old_pos EXCEPT
                                        !.quantity = total_quantity,
                                        !.entry_price = avg_price,
                                        !.total_margin = RAdd(@, cost)]
                      IN  [result |-> OrderId(ex.current_time, symbol, "OPEN"),
                           ex |-> [debited EXCEPT
                                     !.positions = [@ EXCEPT ![key] = new_pos],
                                     !.trades = Append(@, trade)]]
        ELSE LET new_pos == [symbol |-> symbol, side |-> side,
                             quantity |-> quantity, entry_price |-> price,
                             entry_time |-> ex.current_time,
                             total_margin |-> cost]
             IN  [result |-> OrderId(ex.current_time, symbol, "OPEN"),
                  ex |-> [debited EXCEPT
                            !.positions = (key :> new_pos) @@ @,
                            !.trades = Append(@, trade)]]

(* the margin debited before the balance check *)
open_trade_debit_first(ex, side, symbol, quantity, price) ==
    LET cost == margin_cost(price, quantity, ex.leverage)
    IN  IF RLt(ex.balance, cost)
        THEN [result |-> None, ex |-> [ex EXCEPT !.balance = RSub(@, cost)]]
        ELSE open_accept(ex, side, symbol, quantity, price, cost)

(* the OPEN branch of _execute_trade *)
open_trade(ex, side, symbol, quantity, price) ==
    LET cost == margin_cost(price, quantity, ex.leverage)
    IN  IF RLt(ex.balance, cost)
        THEN [result |-> None, ex |-> ex]
        ELSE open_accept(ex, side, symbol, quantity, price, cost)

(* the CLOSE branch of _execute_trade *)
close_trade(ex, side, symbol, quantity, price) ==
    LET key == position_key(symbol, side)
    IN  IF key \notin DOMAIN ex.positions
        THEN [result |-> None, ex |-> ex]
        ELSE LET pos == ex.positions[key]
                 qty == clamp(quantity, pos.quantity)
             IN  IF RIsZero(pos.quantity)
                 THEN [result |-> ZeroDivisionError, ex |-> ex]
                 ELSE LET pnl == realized_pnl_of(pos, price, qty)
                          returned_margin == returned_margin_of(pos, qty)
                          left == [pos EXCEPT !.quantity = RSub(@, qty),
                                              !.total_margin = RSub(@, returned_margin)]
                          trade == [timestamp |-> ex.current_time, symbol |-> symbol,
                                    side |-> side, action |-> "CLOSE", quantity |-> qty,
                                    price |-> price, pnl |-> pnl]
                      IN  [result |-> OrderId(ex.current_time, symbol, "CLOSE"),
                           ex |-> [ex EXCEPT
                                     !.balance = RAdd(@, RAdd(returned_margin, pnl)),
                                     !.positions =
                                        IF RLe(left.quantity, R(0))
                                        THEN [k \in DOMAIN @ \ {key} |-> @[k]]
                                        ELSE [@ EXCEPT ![key] = left],
                                     !.trades = Append(@, trade)]]

(* _execute_trade on the exchange state ex = [balance, positions, trades, leverage,
   current_time]; result is None, an order, or the exception raised *)
trade_at(ex, side, action, symbol, quantity, price) ==
    IF ~Truthy(price) THEN [result |-> None, ex |-> ex]
    ELSE IF action = "OPEN" THEN open_trade(ex, side, symbol, quantity, price)
    ELSE close_trade(ex, side, symbol, quantity, price)

trade_result(r, mp) == [result |-> r.result, ex |-> r.ex, ld |-> mp.ld, price |-> mp.price]

trade_with(ex, side, action, symbol, quantity, mp) ==
    trade_result(trade_at(ex, side, action, symbol, quantity, mp.price), mp)

execute_trade(ex, ld, client, side, action, symbol, quantity, fails) ==
    trade_with(ex, side, action, symbol, quantity,
               get_mark_price(ld, client, ex.current_time, symbol, fails))

Exchange == [balance |-> balance, positions |-> positions, trades |-> trades,
             leverage |-> leverage, current_time |-> current_time]

----------------------------------------------------------------------------
(* BacktestEngine (futures_backtest.py) *)

(* BacktestEngine._interval_to_ms: its own table, one hour for anything else *)
engine_interval_to_ms(interval) ==
    CASE interval = "1m" -> 60 * 1000
      [] interval = "5m" -> 5 * 60 * 1000
      [] interval = "15m" -> 15 * 60 * 1000
      [] interval = "1h" -> 60 * 60 * 1000
      [] interval = "4h" -> 4 * 60 * 60 * 1000
      [] interval = "1d" -> 24 * 60 * 60 * 1000
      [] OTHER -> 60 * 60 * 1000

(* while current <= end: ...; current += timedelta(seconds=interval_seconds) --
   the naive datetimes the loop visits, the j-th being start + (j - 1) * step *)
timestamps_from(current, end, step) ==
    IF ~(current <= end) THEN <<>>
    ELSE [j \in 1 .. ((end - current) \div step + 1) |-> current + (j - 1) * step]

(* timestamps.append(int(current.timestamp() * 1000)) for each of them *)
epoch_list(walls) == [j \in DOMAIN walls |-> timestamp(walls[j])]

(* _generate_timestamps: start_ms, end_ms are the naive datetimes parsed from
   start_date and end_date *)
generate_timestamps(start_ms, end_ms, interval) ==
    epoch_list(timestamps_from(start_ms, end_ms, engine_interval_to_ms(interval)))

Max(a, b) == IF a > b THEN a ELSE b
Min(a, b) == IF a < b THEN a ELSE b

(* the floor of 10 left out *)
max_errors_no_floor(ts) == Len(ts) \div 10

(* max_errors = max(10, len(timestamps) // 10) *)
max_errors(ts) == Max(10, Len(ts) \div 10)

(* the equity loop of run: balance plus the unrealized pnl of every position
   whose mark price is available; the loader state is threaded through *)
RECURSIVE equity_loop(_, _, _, _, _)
RECURSIVE equity_add(_, _, _, _, _, _)
RECURSIVE equity_pick(_, _, _, _, _, _)
equity_loop(keys, ex, ld, client, total) ==
    IF keys = {} THEN [total_equity |-> total, ld |-> ld]
    ELSE equity_pick(CHOOSE k \in keys : TRUE, keys, ex, ld, client, total)

equity_pick(key, keys, ex, ld, client, total) ==
    equity_add(key, keys, ex, client, total,
               get_mark_price(ld, client, ex.current_time, ex.positions[key].symbol,
                              NoFail))

(* if current_price: total_equity += pos.unrealized_pnl(current_price) *)
equity_add(key, keys, ex, client, total, mp) ==
    equity_loop(keys \ {key}, ex, mp.ld, client,
                IF Truthy(mp.price)
                THEN RAdd(total, unrealized_pnl(ex.positions[key], mp.price))
                ELSE total)

equity_record(ts, ex, e) ==
    [point |-> [timestamp |-> ts, equity |-> e.total_equity, balance |-> ex.balance,
                positions |-> Cardinality(DOMAIN ex.positions)],
     ld |-> e.ld]

equity_point(ts, ex, ld, client) ==
    equity_record(ts, ex, equity_loop(DOMAIN ex.positions, ex, ld, client, ex.balance))

(* max(a, b) on floats *)
RMax(a, b) == IF RLt(a, b) THEN b ELSE a

(* _calculate_max_drawdown: one pass over self.equity_curve; peak is the peak
   after `if equity > peak: peak = equity`; dividing by a zero peak raises *)
RECURSIVE drawdown_loop(_, _, _, _)
RECURSIVE drawdown_point(_, _, _, _)
drawdown_loop(curve, j, peak, max_dd) ==
    IF j > Len(curve) THEN max_dd
    ELSE drawdown_point(curve, j,
                        IF RLt(peak, curve[j].equity) THEN curve[j].equity ELSE peak,
                        max_dd)

drawdown_point(curve, j, peak, max_dd) ==
    IF RIsZero(peak) THEN ZeroDivisionError
    ELSE drawdown_loop(curve, j + 1, peak,
                       RMax(max_dd, RMul(RDiv(RSub(peak, curve[j].equity), peak), R(100))))

calculate_max_drawdown(curve) ==
    IF curve = <<>> THEN R(0) ELSE drawdown_loop(curve, 1, curve[1].equity, R(0))

(* sum(t.pnl for t in trades) *)
RECURSIVE pnl_sum(_)
pnl_sum(ts) == IF ts = <<>> THEN R(0) ELSE RAdd(ts[1].pnl, pnl_sum(Tail(ts)))

IsRaised(r) == "raised" \in DOMAIN r

(* every trade of the ledger taken for a closed one *)
closed_all_trades(ledger) == ledger

(* closed_trades = [t for t in trades if t.action == 'CLOSE'] *)
closed_only(ledger) ==
    LET IsClose(t) == t.action = "CLOSE"
    IN  SelectSeq(ledger, IsClose)

(* the trade block of _print_summary: count, win rate and averages are printed,
   then the maximum drawdown is computed and printed; an exception of
   _calculate_max_drawdown leaves the function after the other lines *)
trade_statistics(closed_trades, max_drawdown) ==
    LET Wins(t) == RLt(R(0), t.pnl)
        Losses(t) == RLt(t.pnl, R(0))
        winning_trades == SelectSeq(closed_trades, Wins)
        losing_trades == SelectSeq(closed_trades, Losses)
        printed == [closed |-> Len(closed_trades),
                    wins |-> Len(winning_trades), losses |-> Len(losing_trades),
                    win_rate |-> Rat(Len(winning_trades) * 100, Len(closed_trades)),
                    avg_win |-> IF winning_trades # <<>>
                                THEN RDiv(pnl_sum(winning_trades), R(Len(winning_trades)))
                                ELSE R(0),
                    avg_loss |-> IF losing_trades # <<>>
                                 THEN RDiv(pnl_sum(losing_trades), R(Len(losing_trades)))
                                 ELSE R(0)]
    IN  IF IsRaised(max_drawdown)
        THEN [printed |-> printed, raised |-> max_drawdown.raised]
        ELSE [printed |-> printed, max_drawdown |-> max_drawdown]

(* without a CLOSE trade the block is skipped *)
trade_block(closed_trades, curve) ==
    IF closed_trades # <<>>
    THEN trade_statistics(closed_trades, calculate_max_drawdown(curve))
    ELSE [printed |-> [closed |-> 0]]

summary_of(final_equity, total_return, stats) ==
    IF IsRaised(stats)
    THEN [final_equity |-> final_equity, total_return |-> total_return,
          stats |-> stats.printed, raised |-> stats.raised]
    ELSE [final_equity |-> final_equity, total_return |-> total_return,
          stats |-> stats.printed]

(* _print_summary: the figures it prints, and the exception it raises if any *)
print_summary(curve, ledger, initial_balance) ==
    LET final_equity == IF curve # <<>> THEN curve[Len(curve)].equity ELSE initial_balance
    IN  IF RIsZero(initial_balance) THEN ZeroDivisionError
        ELSE summary_of(final_equity,
                        RMul(RDiv(RSub(final_equity, initial_balance), initial_balance),
                             R(100)),
                        trade_block(closed_only(ledger), curve))

(* float('inf') *)
Infinity == [inf |-> TRUE]

(* sum(abs(t['pnl']) for t in trades) *)
RECURSIVE abs_pnl_sum(_)
abs_pnl_sum(ts) ==
    IF ts = <<>> THEN R(0)
    ELSE RAdd(IF RLt(ts[1].pnl, R(0)) THEN RSub(R(0), ts[1].pnl) ELSE ts[1].pnl,
              abs_pnl_sum(Tail(ts)))

profit_factor_of(total_profit, total_loss) ==
    IF RLt(R(0), total_loss) THEN RDiv(total_profit, total_loss) ELSE Infinity

(* the trade analysis of main() in run_spot_backtest.py over the round trips
   it recorded; nothing is printed for an empty list *)
trade_analysis(round_trips) ==
    LET Wins(t) == RLt(R(0), t.pnl)
        Losses(t) == RLt(t.pnl, R(0))
        winning_trades == SelectSeq(round_trips, Wins)
        losing_trades == SelectSeq(round_trips, Losses)
    IN  IF round_trips = <<>> THEN [trades |-> 0]
        ELSE [trades |-> Len(round_trips),
              wins |-> Len(winning_trades), losses |-> Len(losing_trades),
              win_rate |-> Rat(Len(winning_trades) * 100, Len(round_trips)),
              total_profit |-> pnl_sum(winning_trades),
              total_loss |-> abs_pnl_sum(losing_trades),
              avg_profit |-> IF winning_trades # <<>>
                             THEN RDiv(pnl_sum(winning_trades), R(Len(winning_trades)))
                             ELSE R(0),
              avg_loss |-> IF losing_trades # <<>>
                           THEN RDiv(abs_pnl_sum(losing_trades), R(Len(losing_trades)))
                           ELSE R(0),
              profit_factor |-> profit_factor_of(pnl_sum(winning_trades),
                                                 abs_pnl_sum(losing_trades))]

(* one warm-up call, api.futures_klines(symbol, '5m', limit=100); for a symbol
   in crash the upstream client raises an exception other than
   BinanceAPIException at the first request, which _download_from_binance does
   not catch: nothing is cached and the exception leaves futures_klines *)
warmup_call(ld, client, ct, symbol, crash) ==
    LET interval_ms == interval_to_ms("5m")
        start_time == (ct \div interval_ms) * interval_ms - WarmupLimit * interval_ms
        key == cache_key(symbol, "5m", MonthOf(start_time))
    IN  IF symbol \in crash /\ client /\ key \notin (DOMAIN ld.mem \cup DOMAIN ld.disk)
        THEN [raised |-> TRUE, klines |-> <<>>,
              ld |-> [ld EXCEPT !.reqs = ld.reqs + 1], log |-> <<>>]
        ELSE futures_klines(ld, client, ct, symbol, "5m", WarmupLimit, NoFail)

(* _warmup_data: one call for every declared symbol, an exception caught and
   printed; log: per symbol, whether the call raised and the bars it gave *)
RECURSIVE warmup_loop(_, _, _, _, _, _)
RECURSIVE warmup_next_abort(_, _, _, _, _, _)
RECURSIVE warmup_next(_, _, _, _, _, _)
warmup_loop(symbols, ld, client, ct, crash, log) ==
    IF symbols = <<>> THEN [ld |-> ld, log |-> log]
    ELSE warmup_next(warmup_call(ld, client, ct, Head(symbols), crash),
                     symbols, client, ct, crash, log)

(* the loop given up at the first symbol whose call raises *)
warmup_next_abort(r, symbols, client, ct, crash, log) ==
    IF r.raised
    THEN [ld |-> r.ld,
          log |-> Append(log, [symbol |-> Head(symbols), raised |-> r.raised,
                               bars |-> Len(r.klines)])]
    ELSE warmup_loop(Tail(symbols), r.ld, client, ct, crash,
                     Append(log, [symbol |-> Head(symbols), raised |-> r.raised,
                                  bars |-> Len(r.klines)]))

(* the except clause prints and the for loop goes on to the next symbol *)
warmup_next(r, symbols, client, ct, crash, log) ==
    warmup_loop(Tail(symbols), r.ld, client, ct, crash,
                Append(log, [symbol |-> Head(symbols), raised |-> r.raised,
                             bars |-> Len(r.klines)]))

----------------------------------------------------------------------------
(* Initial states *)

DefaultLeverage == 3                   \* run(..., leverage=3)
Leverages == {2, DefaultLeverage}      \* what strategy.initialize() may set
InitialBalances == {120}
Quantities == {0, 1, MaxQty}
TradeSymbols == {"BTCUSDT"}
Sides == {"LONG", "SHORT"}
Actions == {"OPEN", "CLOSE"}
GapChoices == {{}, {StartMs, 5 * MinuteMs}}   \* open times the upstream lacks

EmptyMap == [k \in {} |-> None]
NoCall == [op |-> "none"]
NoCaller == [outcome |-> "running"]
NoStrategy == [class |-> "none"]
NoPrefetch == [main |-> "none"]
NoDownload == [pc |-> "none"]
Free == [free |-> TRUE, fail |-> {}]

RunArg(k, syms) ==
    [start_ms |-> StartMs, end_ms |-> StartMs + k * MinuteMs, interval |-> "1m",
     leverage |-> DefaultLeverage, client |-> TRUE, symbols |-> syms,
     initial_balance |-> 10000, zone |-> "fixed", warm_crash |-> {}]

(* an empty range, a single tick, and MaxTicks ticks with declared symbols *)
RunArgs == {RunArg(0 - 1, <<>>), RunArg(0, <<>>),
            RunArg(MaxTicks - 1, <<"BTCUSDT", "ETHUSDT">>)}

InitLoader ==
    /\ \E gaps \in GapChoices : upstream = UpstreamData(0, gaps)
    /\ memory_cache = EmptyMap
    /\ disk_cache = EmptyMap
    /\ requests = 0

InitEngine ==
    /\ timestamps = <<>>
    /\ i = 0
    /\ error_count = 0
    /\ equity_curve = <<>>
    /\ ops = 0
    /\ last = NoCall
    /\ tick_start = None
    /\ caller = NoCaller

InitFutures ==
    /\ mode = "futures"
    /\ \E a \in RunArgs, b \in InitialBalances :
          /\ run_args = [a EXCEPT !.initial_balance = b]
          /\ balance = R(b)
    /\ schedule = Free
    /\ strategy = NoStrategy
    /\ prefetch = NoPrefetch
    /\ download = NoDownload
    /\ pc = "start"
    /\ current_time = NoTime
    /\ positions = EmptyMap
    /\ trades = <<>>
    /\ leverage = run_args.leverage
    /\ balances = EmptyMap
    /\ spot_loader = "none"

----------------------------------------------------------------------------
(* BacktestEngine.run, one step at a time *)

SetLoader(ld) ==
    /\ memory_cache' = ld.mem
    /\ disk_cache' = ld.disk
    /\ requests' = ld.reqs
    /\ UNCHANGED upstream

SetExchange(ex) ==
    /\ balance' = ex.balance
    /\ positions' = ex.positions
    /\ trades' = ex.trades
    /\ UNCHANGED <<leverage, current_time>>

Accounting == [balance |-> balance, positions |-> positions, trades |-> trades]

(* the loader as _warmup_data leaves it, and what each of its calls gave *)
WarmupDone(w, first_timestamp) ==
    /\ SetLoader(w.ld)
    /\ last' = [op |-> "warmup", at |-> first_timestamp, log |-> w.log]

(* the run started without the empty-range check: warm-up is skipped for want
   of a first timestamp and the loop ends at once *)
RunStartTolerant ==
    /\ mode = "futures" /\ pc = "start"
    /\ \E l \in Leverages :
        LET ts == generate_timestamps(run_args.start_ms, run_args.end_ms, run_args.interval)
        IN  /\ leverage' = l
            /\ timestamps' = ts
            /\ pc' = "loop"
            /\ i' = 1
            /\ UNCHANGED caller
            /\ IF run_args.symbols = <<>> \/ ts = <<>>
               THEN UNCHANGED <<current_time, loaderVars, last>>
               ELSE /\ current_time' = ts[1]
                    /\ WarmupDone(warmup_loop(run_args.symbols, Loader, run_args.client,
                                              ts[1], run_args.warm_crash, <<>>), ts[1])
    /\ UNCHANGED <<balance, positions, trades, error_count, equity_curve, ops,
                   tick_start, spotVars, inputVars>>

(* run up to the loop: strategy.initialize() (which calls setup_futures_mode),
   _generate_timestamps, the empty-range check, _warmup_data *)
RunStart ==
    /\ mode = "futures" /\ pc = "start"
    /\ \E l \in Leverages :
        LET ts == generate_timestamps(run_args.start_ms, run_args.end_ms, run_args.interval)
        IN  /\ leverage' = l
            /\ timestamps' = ts
            /\ IF ts = <<>>
               THEN /\ pc' = "failed"
                    /\ caller' = [outcome |-> "ValueError"]
                    /\ UNCHANGED <<i, current_time, loaderVars, last>>
               ELSE /\ pc' = "loop"
                    /\ i' = 1
                    /\ UNCHANGED caller
                    /\ IF run_args.symbols = <<>>
                       THEN UNCHANGED <<current_time, loaderVars, last>>
                       ELSE /\ current_time' = ts[1]
                            /\ WarmupDone(warmup_loop(run_args.symbols, Loader,
                                                      run_args.client, ts[1],
                                                      run_args.warm_crash, <<>>), ts[1])
    /\ UNCHANGED <<balance, positions, trades, error_count, equity_curve, ops,
                   tick_start, spotVars, inputVars>>

(* for i, ts in enumerate(timestamps): backtest_api.current_time = ts *)
TickBegin ==
    /\ mode = "futures" /\ pc = "loop" /\ i <= Len(timestamps)
    /\ current_time' = timestamps[i]
    /\ tick_start' = Accounting
    /\ pc' = "scout"
    /\ UNCHANGED <<loaderVars, balance, positions, trades, leverage, timestamps, i,
                   error_count, equity_curve, ops, last, caller, spotVars, inputVars>>

TradeDone(r, side, action, symbol, q) ==
    /\ SetExchange(r.ex)
    /\ SetLoader(r.ld)
    /\ last' = [op |-> "trade", side |-> side, action |-> action,
                symbol |-> symbol, quantity |-> R(q), result |-> r.result,
                price |-> r.price, before |-> Exchange, at |-> current_time]

(* a scripted strategy: schedule.script lists the orders of a run in order,
   each with the tick it is placed on; without a script any order may come *)
Scripted(side, action, symbol, q) ==
    "script" \in DOMAIN schedule
      => /\ ops < Len(schedule.script)
         /\ schedule.script[ops + 1] = [tick |-> i, order |-> <<side, action, symbol, q>>]

(* the scripted strategy has placed every order of this tick *)
ScriptDone ==
    "script" \in DOMAIN schedule
      => (IF ops < Len(schedule.script) THEN schedule.script[ops + 1].tick # i ELSE TRUE)

(* the strategy calls open_long / open_short / close_long / close_short *)
Trade(side, action, symbol, q) ==
    /\ mode = "futures" /\ pc = "scout" /\ ops < MaxOps
    /\ Scripted(side, action, symbol, q)
    /\ TradeDone(execute_trade(Exchange, Loader, run_args.client, side, action, symbol,
                               R(q), NoFail), side, action, symbol, q)
    /\ ops' = ops + 1
    /\ UNCHANGED <<engineVars, spotVars, inputVars>>

MayRaise == schedule.free \/ i \in schedule.fail
MayReturn == schedule.free \/ i \notin schedule.fail

EquityDone(e) ==
    /\ equity_curve' = Append(equity_curve, e.point)
    /\ SetLoader(e.ld)

(* scout() returned: the equity point is recorded *)
ScoutReturn ==
    /\ mode = "futures" /\ pc = "scout" /\ MayReturn /\ ScriptDone
    /\ EquityDone(equity_point(timestamps[i], Exchange, Loader, run_args.client))
    /\ i' = i + 1
    /\ pc' = "loop"
    /\ last' = [op |-> "scout", result |-> "returned"]
    /\ UNCHANGED <<exchangeVars, timestamps, error_count, ops, tick_start, caller,
                   spotVars, inputVars>>

(* scout() raised: counted; the run aborts above max_errors, else `continue` *)
ScoutRaise ==
    /\ mode = "futures" /\ pc = "scout" /\ MayRaise /\ ScriptDone
    /\ error_count' = error_count + 1
    /\ IF error_count + 1 > max_errors(timestamps)
       THEN /\ pc' = "aborted"
            /\ caller' = [outcome |-> "RuntimeError", error_count |-> error_count + 1,
                          processed |-> i]
            /\ UNCHANGED i
       ELSE /\ pc' = "loop"
            /\ i' = i + 1
            /\ UNCHANGED caller
    /\ last' = [op |-> "scout", result |-> "raised"]
    /\ UNCHANGED <<loaderVars, exchangeVars, timestamps, equity_curve, ops, tick_start,
                   spotVars, inputVars>>

(* run returns backtest_api unless _print_summary raised *)
Summarised(s) ==
    IF IsRaised(s)
    THEN /\ pc' = "crashed"
         /\ caller' = [outcome |-> s.raised]
    ELSE /\ pc' = "done"
         /\ caller' = [outcome |-> "returned", result |-> Exchange,
                       summary |-> [equity_curve |-> equity_curve, trades |-> trades]]

(* the loop is exhausted: _print_summary, return backtest_api *)
Finish ==
    /\ mode = "futures" /\ pc = "loop" /\ i > Len(timestamps)
    /\ Summarised(print_summary(equity_curve, trades, R(run_args.initial_balance)))
    /\ UNCHANGED <<loaderVars, exchangeVars, timestamps, i, error_count, equity_curve,
                   ops, last, tick_start, spotVars, inputVars>>

(* KeyboardInterrupt reaches main() of run_backtest.py *)
Interrupt ==
    /\ mode = "futures" /\ pc = "loop" /\ i > 1
    /\ pc' = "interrupted"
    /\ caller' = [outcome |-> "KeyboardInterrupt"]
    /\ UNCHANGED <<loaderVars, exchangeVars, timestamps, i, error_count, equity_curve,
                   ops, last, tick_start, spotVars, inputVars>>

(* run is called again with the same arguments, on the same BacktestEngine
   (its equity_curve and its DataLoader stay) or on a new one built the same
   way (an empty equity_curve, a DataLoader with an empty memory cache over
   the same cache directory); run builds a new BacktestAPIManager and a new
   strategy; the caller keeps what the run before left. Taken after an
   engine's first run only (its equity_curve holds that run's points) *)
Rerun(fresh) ==
    /\ mode = "futures" /\ pc = "done"
    /\ Len(equity_curve) + error_count = Len(timestamps)
    /\ caller' = [outcome |-> "running", fresh |-> fresh,
                  previous |-> [equity_curve |-> equity_curve, trades |-> trades,
                                leverage |-> leverage]]
    /\ pc' = "start"
    /\ equity_curve' = IF fresh THEN <<>> ELSE equity_curve
    /\ memory_cache' = IF fresh THEN EmptyMap ELSE memory_cache
    /\ UNCHANGED <<upstream, disk_cache, requests>>
    /\ balance' = R(run_args.initial_balance)
    /\ positions' = EmptyMap
    /\ trades' = <<>>
    /\ leverage' = run_args.leverage
    /\ current_time' = NoTime
    /\ timestamps' = <<>>
    /\ i' = 0
    /\ error_count' = 0
    /\ ops' = 0
    /\ last' = NoCall
    /\ tick_start' = None
    /\ UNCHANGED <<spotVars, inputVars>>

----------------------------------------------------------------------------
(* SpotBacktestAPIManager (spot_backtest.py) *)

AttributeError == [raised |-> "AttributeError"]
RuntimeError == [raised |-> "RuntimeError"]

fee_rate == Rat(75, 100000)

(* A spot amount q * (1 - fee_rate)^k is kept as [q, k]: the fee factor stays
   symbolic so that repeated swaps remain exact within TLC's integers *)
Amt(q, k) == IF RIsZero(q) THEN [q |-> R(0), k |-> 0] ELSE [q |-> q, k |-> k]
RECURSIVE RPow(_, _)
RPow(x, k) == IF k = 0 THEN R(1) ELSE RMul(x, RPow(x, k - 1))
AmtAdd(a, b) ==
    IF RIsZero(a.q) THEN b
    ELSE IF RIsZero(b.q) THEN a
    ELSE LET m == Min(a.k, b.k)
             f == RSub(R(1), fee_rate)
         IN  Amt(RAdd(RMul(a.q, RPow(f, a.k - m)), RMul(b.q, RPow(f, b.k - m))), m)
AmtMulRat(a, x) == Amt(RMul(a.q, x), a.k)
AmtDivRat(a, x) == Amt(RDiv(a.q, x), a.k)
(* a * (1 - fee) *)
AmtLessFee(a) == Amt(a.q, a.k + 1)
AmtNonPositive(a) == RLe(a.q, R(0))

(* origin_symbol + target_symbol, for the pairs the upstream lists *)
ticker_symbol(origin, target) ==
    CASE origin = "BTC" /\ target = "USDT" -> "BTCUSDT"
      [] origin = "ETH" /\ target = "USDT" -> "ETHUSDT"
      [] OTHER -> "UNLISTED"

fetched(r) == [raised |-> FALSE, klines |-> r.klines, ld |-> r.ld]

(* data_loader.get_klines as the spot manager calls it: spot_backtest.DataLoader
   has no get_klines (AttributeError); an injected futures DataLoader has *)
spot_get_klines(ld, loader, symbol, interval, start_ms, end_ms) ==
    IF loader = "klines"
    THEN fetched(get_klines(ld, TRUE, symbol, interval, start_ms, end_ms, NoFail))
    ELSE [raised |-> TRUE, klines |-> <<>>, ld |-> ld]

(* the tail of get_historical_klines: filter, keep the last `limit`, convert *)
historical_result(r, ld, ct, limit) ==
    IF r.raised
    THEN [result |-> AttributeError, raised |-> TRUE, ld |-> ld]
    ELSE [result |-> raw_format(LastN(completed(r.klines, ct), limit)), raised |-> FALSE,
          ld |-> r.ld]

get_historical_klines(ld, loader, ct, symbol, interval, start_time, end_time, limit) ==
    IF ct = NoTime
    THEN [result |-> RuntimeError, raised |-> TRUE, ld |-> ld]
    ELSE historical_result(spot_get_klines(ld, loader, symbol, interval, start_time,
                                           Min(end_time, ct)), ld, ct, limit)

(* the close of the last bar fetched, if that bar is completed *)
ticker_price_of(r, ld, ct) ==
    IF r.raised THEN [price |-> None, ld |-> ld]
    ELSE IF r.klines # <<>> /\ r.klines[Len(r.klines)].close_time < ct
    THEN [price |-> r.klines[Len(r.klines)].close, ld |-> r.ld]
    ELSE [price |-> None, ld |-> r.ld]

(* get_ticker_price: any exception inside is swallowed and gives None *)
get_ticker_price(ld, loader, ct, ticker) ==
    IF ct = NoTime
    THEN [price |-> None, ld |-> ld]
    ELSE LET interval_ms == 5 * 60 * 1000
             current_interval_start == (ct \div interval_ms) * interval_ms
             end_time == current_interval_start
         IN  ticker_price_of(spot_get_klines(ld, loader, ticker, "5m",
                                             end_time - interval_ms, end_time), ld, ct)

(* balances.get(symbol, 0.0) *)
get_currency_balance(bals, symbol) ==
    IF symbol \in DOMAIN bals THEN bals[symbol] ELSE Amt(R(0), 0)

MockOrder(price) == [price |-> price]

(* the purchase credited without the paying balance being set to zero *)
buy_at_keep_paying(bals, origin, target, tp) ==
    LET price == tp.price
        target_balance == get_currency_balance(bals, target)
    IN  IF price = None
        THEN [result |-> None, balances |-> bals, ld |-> tp.ld, price |-> price]
        ELSE IF AmtNonPositive(target_balance)
        THEN [result |-> None, balances |-> bals, ld |-> tp.ld, price |-> price]
        ELSE LET origin_quantity == AmtLessFee(AmtDivRat(target_balance, price))
             IN  [result |-> MockOrder(price),
                  balances |-> (origin :> AmtAdd(get_currency_balance(bals, origin),
                                                 origin_quantity)) @@ bals,
                  ld |-> tp.ld, price |-> price]

(* buy_alt(origin_coin, target_coin): pay with the whole target balance *)
buy_at(bals, origin, target, tp) ==
    LET price == tp.price
        target_balance == get_currency_balance(bals, target)
    IN  IF price = None
        THEN [result |-> None, balances |-> bals, ld |-> tp.ld, price |-> price]
        ELSE IF AmtNonPositive(target_balance)
        THEN [result |-> None, balances |-> bals, ld |-> tp.ld, price |-> price]
        ELSE LET origin_quantity == AmtLessFee(AmtDivRat(target_balance, price))
                 zeroed == (target :> Amt(R(0), 0)) @@ bals
             IN  [result |-> MockOrder(price),
                  balances |-> (origin :> AmtAdd(get_currency_balance(zeroed, origin),
                                                 origin_quantity)) @@ zeroed,
                  ld |-> tp.ld, price |-> price]

buy_alt(bals, ld, loader, ct, origin, target) ==
    buy_at(bals, origin, target,
           get_ticker_price(ld, loader, ct, ticker_symbol(origin, target)))

(* sell_alt(origin_coin, target_coin): sell the whole origin balance *)
sell_at(bals, origin, target, tp) ==
    LET price == tp.price
        origin_balance == get_currency_balance(bals, origin)
    IN  IF price = None
        THEN [result |-> None, balances |-> bals, ld |-> tp.ld, price |-> price]
        ELSE IF AmtNonPositive(origin_balance)
        THEN [result |-> None, balances |-> bals, ld |-> tp.ld, price |-> price]
        ELSE LET target_quantity == AmtLessFee(AmtMulRat(origin_balance, price))
                 zeroed == (origin :> Amt(R(0), 0)) @@ bals
             IN  [result |-> MockOrder(price),
                  balances |-> (target :> AmtAdd(get_currency_balance(zeroed, target),
                                                 target_quantity)) @@ zeroed,
                  ld |-> tp.ld, price |-> price]

sell_alt(bals, ld, loader, ct, origin, target) ==
    sell_at(bals, origin, target,
            get_ticker_price(ld, loader, ct, ticker_symbol(origin, target)))

----------------------------------------------------------------------------
(* The managers driven directly: the driver sets current_time, the strategy
   queries bars (mode "klines") or swaps spot balances (mode "spot") *)

DriverTimes == {m * MinuteMs : m \in {StartMinute, 5, 6, 7, 10}}
Coins == {"BTC", "ETH", "USDT"}
bridge_symbol == "USDT"

InitKlines ==
    /\ mode = "klines"
    /\ run_args = RunArg(0, <<>>)
    /\ schedule = Free
    /\ strategy = NoStrategy
    /\ prefetch = NoPrefetch
    /\ download = NoDownload
    /\ pc = "api"
    /\ current_time = NoTime
    /\ balance = R(0)
    /\ positions = EmptyMap
    /\ trades = <<>>
    /\ leverage = DefaultLeverage
    /\ balances = EmptyMap
    /\ spot_loader = "none"

InitSpot ==
    /\ mode = "spot"
    /\ run_args = RunArg(0, <<>>)
    /\ schedule = Free
    /\ strategy = NoStrategy
    /\ prefetch = NoPrefetch
    /\ download = NoDownload
    /\ pc = "api"
    /\ current_time = NoTime
    /\ balance = R(0)
    /\ positions = EmptyMap
    /\ trades = <<>>
    /\ leverage = DefaultLeverage
    /\ \E b \in InitialBalances : balances = (bridge_symbol :> Amt(R(b), 0))
    /\ spot_loader \in {"klines", "yfinance"}

(* the replay driver advances the virtual clock *)
SetTime(t) ==
    /\ mode \in {"klines", "spot"}
    /\ t > current_time
    /\ current_time' = t
    /\ UNCHANGED <<loaderVars, balance, positions, trades, leverage, engineVars, ops,
                   last, spotVars, inputVars>>

KlinesDone(r, symbol, interval, limit) ==
    /\ SetLoader(r.ld)
    /\ last' = [op |-> "futures_klines", symbol |-> symbol, interval |-> interval,
                limit |-> limit, result |-> r.klines, raised |-> r.raised,
                at |-> current_time, log |-> r.log]

(* the strategy calls binance_client.futures_klines; fails: the requests to
   the upstream that raise BinanceAPIException during this call *)
Klines(symbol, interval, limit, fails) ==
    /\ mode = "klines" /\ ops < MaxOps
    /\ KlinesDone(futures_klines(Loader, run_args.client, current_time, symbol, interval,
                                 limit, fails), symbol, interval, limit)
    /\ ops' = ops + 1
    /\ UNCHANGED <<exchangeVars, engineVars, spotVars, inputVars>>

SpotKlinesDone(r, symbol, interval, start_time, end_time, limit) ==
    /\ SetLoader(r.ld)
    /\ last' = [op |-> "get_historical_klines", symbol |-> symbol,
                interval |-> interval, start_time |-> start_time,
                end_time |-> end_time, limit |-> limit, result |-> r.result,
                raised |-> r.raised, at |-> current_time]

(* the strategy calls binance_client.get_historical_klines *)
SpotKlines(symbol, interval, start_time, end_time, limit) ==
    /\ mode = "spot" /\ ops < MaxOps
    /\ SpotKlinesDone(get_historical_klines(Loader, spot_loader, current_time, symbol,
                                            interval, start_time, end_time, limit),
                      symbol, interval, start_time, end_time, limit)
    /\ ops' = ops + 1
    /\ UNCHANGED <<exchangeVars, engineVars, spotVars, inputVars>>

SwapDone(r, op, origin, target) ==
    /\ balances' = r.balances
    /\ SetLoader(r.ld)
    /\ last' = [op |-> op, origin |-> origin, target |-> target,
                result |-> r.result, price |-> r.price, before |-> balances,
                at |-> current_time]

SpotBuy(origin, target) ==
    /\ mode = "spot" /\ ops < MaxOps
    /\ SwapDone(buy_alt(balances, Loader, spot_loader, current_time, origin, target),
                "buy_alt", origin, target)
    /\ ops' = ops + 1
    /\ UNCHANGED <<exchangeVars, engineVars, spot_loader, inputVars>>

SpotSell(origin, target) ==
    /\ mode = "spot" /\ ops < MaxOps
    /\ SwapDone(sell_alt(balances, Loader, spot_loader, current_time, origin, target),
                "sell_alt", origin, target)
    /\ ops' = ops + 1
    /\ UNCHANGED <<exchangeVars, engineVars, spot_loader, inputVars>>

ApiNext ==
    \/ \E t \in DriverTimes : SetTime(t)
    \/ \E symbol \in Symbols, interval \in Intervals, limit \in {1, MaxLimit} :
          Klines(symbol, interval, limit, NoFail)
    \/ \E symbol \in TradeSymbols, limit \in {1, MaxLimit},
          start_time \in {0}, end_time \in {6 * MinuteMs, HorizonMs} :
          SpotKlines(symbol, "1m", start_time, end_time, limit)
    \/ \E origin \in Coins : \E target \in Coins \ {origin} : SpotBuy(origin, target)
    \/ \E origin \in Coins : \E target \in Coins \ {origin} : SpotSell(origin, target)

FuturesNext ==
    \/ RunStart
    \/ TickBegin
    \/ \E side \in Sides, action \in Actions, symbol \in TradeSymbols, q \in Quantities :
          Trade(side, action, symbol, q)
    \/ ScoutReturn
    \/ ScoutRaise
    \/ Finish
    \/ Interrupt

(* runs over a price path that starts 100, 110 (what the first and the second
   tick see as the mark price), with an initial balance that covers every
   order or one that does not *)
InitRising ==
    /\ upstream = UpstreamData(3, {})
    /\ memory_cache = EmptyMap
    /\ disk_cache = EmptyMap
    /\ requests = 0
    /\ InitEngine
    /\ mode = "futures"
    /\ \E b \in {120, 1000} :
          /\ run_args = [RunArg(MaxTicks - 1, <<"BTCUSDT">>) EXCEPT
                            !.initial_balance = b]
          /\ balance = R(b)
    /\ schedule = Free
    /\ strategy = NoStrategy
    /\ prefetch = NoPrefetch
    /\ download = NoDownload
    /\ pc = "start"
    /\ current_time = NoTime
    /\ positions = EmptyMap
    /\ trades = <<>>
    /\ leverage = run_args.leverage
    /\ balances = EmptyMap
    /\ spot_loader = "none"

Init == InitLoader /\ InitEngine /\ (InitFutures \/ InitKlines \/ InitSpot)
Next == FuturesNext \/ ApiNext
Spec == Init /\ [][Next]_vars

SpecRising == InitRising /\ [][FuturesNext]_vars

(* runs over the steep price path, with an initial balance that barely covers
   the margin of one unit or one that covers every loss *)
InitSteep ==
    /\ upstream = UpstreamData(SteepPath, {})
    /\ memory_cache = EmptyMap
    /\ disk_cache = EmptyMap
    /\ requests = 0
    /\ InitEngine
    /\ mode = "futures"
    /\ \E b \in {40, 1000} :
          /\ run_args = [RunArg(MaxTicks - 1, <<"BTCUSDT">>) EXCEPT
                            !.initial_balance = b]
          /\ balance = R(b)
    /\ schedule = Free
    /\ strategy = NoStrategy
    /\ prefetch = NoPrefetch
    /\ download = NoDownload
    /\ pc = "start"
    /\ current_time = NoTime
    /\ positions = EmptyMap
    /\ trades = <<>>
    /\ leverage = run_args.leverage
    /\ balances = EmptyMap
    /\ spot_loader = "none"

SpecSteep == InitSteep /\ [][FuturesNext]_vars

(* runs in each time zone: over MaxTicks one-minute steps, over a range that is
   no multiple of the five-minute step, over a single instant and over an
   empty range *)
ZoneRanges == {<<0 - 1, "1m">>, <<0, "1m">>, <<MaxTicks - 1, "1m">>, <<7, "5m">>}

InitZones ==
    /\ InitLoader
    /\ InitEngine
    /\ mode = "futures"
    /\ \E z \in Zones, rg \in ZoneRanges, b \in InitialBalances :
          /\ run_args = [RunArg(rg[1], <<"BTCUSDT">>) EXCEPT
                            !.interval = rg[2], !.zone = z, !.initial_balance = b]
          /\ balance = R(b)
    /\ schedule = Free
    /\ strategy = NoStrategy
    /\ prefetch = NoPrefetch
    /\ download = NoDownload
    /\ pc = "start"
    /\ current_time = NoTime
    /\ positions = EmptyMap
    /\ trades = <<>>
    /\ leverage = run_args.leverage
    /\ balances = EmptyMap
    /\ spot_loader = "none"

SpecZones == InitZones /\ [][FuturesNext]_vars

(* the step intervals BacktestAPIManager._interval_to_ms has an entry for *)
RecognisedIntervals == {"1m", "3m", "5m", "15m", "30m", "1h", "2h", "4h", "1d"}

(* runs over a range exactly one step interval long, for each of them *)
InitStrides ==
    /\ InitLoader
    /\ InitEngine
    /\ mode = "futures"
    /\ \E interval \in RecognisedIntervals :
          run_args = [RunArg(0, <<>>) EXCEPT
                         !.interval = interval,
                         !.end_ms = StartMs + interval_to_ms(interval),
                         !.initial_balance = 120]
    /\ balance = R(120)
    /\ schedule = Free
    /\ strategy = NoStrategy
    /\ prefetch = NoPrefetch
    /\ download = NoDownload
    /\ pc = "start"
    /\ current_time = NoTime
    /\ positions = EmptyMap
    /\ trades = <<>>
    /\ leverage = run_args.leverage
    /\ balances = EmptyMap
    /\ spot_loader = "none"

SpecStrides == InitStrides /\ [][FuturesNext]_vars

(* runs of strategies that declare no symbol, one symbol or two, the upstream
   client raising for some of them during warm-up; the strategy places no order *)
WarmupSymbols == {<<>>, <<"BTCUSDT">>, <<"BTCUSDT", "ETHUSDT">>, <<"ETHUSDT", "BTCUSDT">>}

InitWarmup ==
    /\ InitLoader
    /\ InitEngine
    /\ mode = "futures"
    /\ \E k \in {0 - 1, 0, MaxTicks - 1}, syms \in WarmupSymbols,
          crash \in SUBSET {"BTCUSDT", "ETHUSDT"}, b \in InitialBalances :
          /\ run_args = [RunArg(k, syms) EXCEPT !.warm_crash = crash,
                                                !.initial_balance = b]
          /\ balance = R(b)
    /\ schedule = Free
    /\ strategy = NoStrategy
    /\ prefetch = NoPrefetch
    /\ download = NoDownload
    /\ pc = "start"
    /\ current_time = NoTime
    /\ positions = EmptyMap
    /\ trades = <<>>
    /\ leverage = run_args.leverage
    /\ balances = EmptyMap
    /\ spot_loader = "none"

WarmupNext ==
    \/ RunStart
    \/ TickBegin
    \/ ScoutReturn
    \/ ScoutRaise
    \/ Finish
    \/ Interrupt

SpecWarmup == InitWarmup /\ [][WarmupNext]_vars

(* runs over MaxTicks + 1 one-minute steps in each time zone; the strategy
   places no order *)
InitOutcomes ==
    /\ InitLoader
    /\ InitEngine
    /\ mode = "futures"
    /\ \E z \in Zones, k \in {0, MaxTicks}, b \in InitialBalances :
          /\ run_args = [RunArg(k, <<"BTCUSDT">>) EXCEPT !.zone = z,
                                                        !.initial_balance = b]
          /\ balance = R(b)
    /\ schedule = Free
    /\ strategy = NoStrategy
    /\ prefetch = NoPrefetch
    /\ download = NoDownload
    /\ pc = "start"
    /\ current_time = NoTime
    /\ positions = EmptyMap
    /\ trades = <<>>
    /\ leverage = run_args.leverage
    /\ balances = EmptyMap
    /\ spot_loader = "none"

SpecOutcomes == InitOutcomes /\ [][WarmupNext]_vars

(* the same run twice, over the rising price path, for deterministic
   strategies: one that never orders, one whose callback raises on the first
   tick, one that opens a long on the first tick and closes it on the second,
   and one that opens the largest long on the first tick and closes a part of
   it on the second; the initial balance covers every order amply, or barely,
   or is exactly the margin of the largest long at leverage 2 *)
Scripts ==
    {[free |-> FALSE, fail |-> {}, script |-> <<>>],
     [free |-> FALSE, fail |-> {1}, script |-> <<>>],
     [free |-> FALSE, fail |-> {},
      script |-> <<[tick |-> 1, order |-> <<"LONG", "OPEN", "BTCUSDT", 1>>],
                   [tick |-> 2, order |-> <<"LONG", "CLOSE", "BTCUSDT", 1>>]>>],
     [free |-> FALSE, fail |-> {},
      script |-> <<[tick |-> 1, order |-> <<"LONG", "OPEN", "BTCUSDT", MaxQty>>],
                   [tick |-> 2, order |-> <<"LONG", "CLOSE", "BTCUSDT", 1>>]>>]}

InitReplay ==
    /\ \E gaps \in {{}, {5 * MinuteMs}} : upstream = UpstreamData(3, gaps)
    /\ memory_cache = EmptyMap
    /\ disk_cache = EmptyMap
    /\ requests = 0
    /\ InitEngine
    /\ mode = "futures"
    /\ \E b \in {120, 1000, MaxQty * 50}, syms \in {<<>>, <<"BTCUSDT">>} :
          /\ run_args = [RunArg(MaxTicks - 1, syms) EXCEPT !.initial_balance = b]
          /\ balance = R(b)
    /\ schedule \in Scripts
    /\ strategy = NoStrategy
    /\ prefetch = NoPrefetch
    /\ download = NoDownload
    /\ pc = "start"
    /\ current_time = NoTime
    /\ positions = EmptyMap
    /\ trades = <<>>
    /\ leverage = run_args.leverage
    /\ balances = EmptyMap
    /\ spot_loader = "none"

ReplayNext ==
    \/ FuturesNext
    \/ \E fresh \in BOOLEAN : Rerun(fresh)

SpecReplay == InitReplay /\ [][ReplayNext]_vars

----------------------------------------------------------------------------
(* The summary functions applied to equity curves and ledgers *)

MaxCurve == 3                          \* longest equity curve summarised
EquityValues == {0 - 50, 0, 50, 100}

(* equity curves of up to MaxCurve points *)
Curves ==
    UNION {[1 .. n -> EquityValues] : n \in 0 .. MaxCurve}

CurveOf(f) ==
    [j \in DOMAIN f |-> [timestamp |-> StartMs + (j - 1) * MinuteMs, equity |-> R(f[j]),
                         balance |-> R(f[j]), positions |-> 0]]

OpenTrade == [timestamp |-> StartMs, symbol |-> "BTCUSDT", side |-> "LONG",
              action |-> "OPEN", quantity |-> R(1), price |-> R(100), pnl |-> R(0)]
CloseTrade(pnl) == [OpenTrade EXCEPT !.action = "CLOSE", !.pnl = R(pnl)]

(* ledgers: none, an open only, closes that won, lost, broke even, and mixes *)
Ledgers ==
    {<<>>, <<OpenTrade>>,
     <<OpenTrade, CloseTrade(30)>>,
     <<OpenTrade, CloseTrade(0 - 20)>>,
     <<OpenTrade, CloseTrade(0)>>,
     <<OpenTrade, CloseTrade(30), OpenTrade, CloseTrade(10)>>,
     <<OpenTrade, CloseTrade(30), OpenTrade, CloseTrade(0 - 20)>>,
     <<OpenTrade, CloseTrade(0 - 20), CloseTrade(0 - 10), CloseTrade(0), CloseTrade(15)>>}

InitSummary ==
    /\ upstream = UpstreamData(0, {})
    /\ memory_cache = EmptyMap
    /\ disk_cache = EmptyMap
    /\ requests = 0
    /\ timestamps = <<>>
    /\ i = 0
    /\ error_count = 0
    /\ \E f \in Curves : equity_curve = CurveOf(f)
    /\ trades \in Ledgers
    /\ ops = 0
    /\ last = NoCall
    /\ tick_start = None
    /\ caller = NoCaller
    /\ mode = "summary"
    /\ run_args = [RunArg(0, <<>>) EXCEPT !.initial_balance = 100]
    /\ schedule = Free
    /\ strategy = NoStrategy
    /\ prefetch = NoPrefetch
    /\ download = NoDownload
    /\ pc = "api"
    /\ current_time = NoTime
    /\ balance = R(0)
    /\ positions = EmptyMap
    /\ leverage = DefaultLeverage
    /\ balances = EmptyMap
    /\ spot_loader = "none"

(* self._calculate_max_drawdown() *)
MaxDrawdown ==
    /\ mode = "summary"
    /\ last' = [op |-> "max_drawdown", result |-> calculate_max_drawdown(equity_curve),
                before |-> equity_curve]
    /\ UNCHANGED <<loaderVars, exchangeVars, engineVars, ops, spotVars, inputVars>>

(* self._print_summary(api, initial_balance) *)
PrintSummary ==
    /\ mode = "summary"
    /\ last' = [op |-> "print_summary",
                result |-> print_summary(equity_curve, trades,
                                         R(run_args.initial_balance)),
                before |-> [equity_curve |-> equity_curve, trades |-> trades]]
    /\ UNCHANGED <<loaderVars, exchangeVars, engineVars, ops, spotVars, inputVars>>

(* round trips as main() of run_spot_backtest.py records them *)
MaxTrips == 3
PnlValues == {0 - 20, 0, 30}
RoundTrips == UNION {[1 .. n -> PnlValues] : n \in 0 .. MaxTrips}
TripsOf(f) == [j \in DOMAIN f |-> [entry_value |-> R(100), exit_value |-> R(100 + f[j]),
                                   pnl |-> R(f[j])]]

InitReport ==
    /\ upstream = UpstreamData(0, {})
    /\ memory_cache = EmptyMap
    /\ disk_cache = EmptyMap
    /\ requests = 0
    /\ InitEngine
    /\ \E f \in RoundTrips : trades = TripsOf(f)
    /\ mode = "report"
    /\ run_args = [RunArg(0, <<>>) EXCEPT !.initial_balance = 100]
    /\ schedule = Free
    /\ strategy = NoStrategy
    /\ prefetch = NoPrefetch
    /\ download = NoDownload
    /\ pc = "api"
    /\ current_time = NoTime
    /\ balance = R(0)
    /\ positions = EmptyMap
    /\ leverage = DefaultLeverage
    /\ balances = EmptyMap
    /\ spot_loader = "none"

(* the trade analysis block of main() in run_spot_backtest.py *)
TradeAnalysis ==
    /\ mode = "report"
    /\ last' = [op |-> "trade_analysis", result |-> trade_analysis(trades),
                before |-> trades]
    /\ UNCHANGED <<loaderVars, exchangeVars, engineVars, ops, spotVars, inputVars>>

SummaryNext == MaxDrawdown \/ PrintSummary \/ TradeAnalysis

SpecSummary == (InitSummary \/ InitReport) /\ [][SummaryNext]_vars

----------------------------------------------------------------------------
(* Queries of futures_klines against an upstream whose requests may raise *)

KlinesNext ==
    \/ \E t \in DriverTimes : SetTime(t)
    \/ \E symbol \in TradeSymbols, interval \in Intervals, limit \in {0, 1, MaxLimit},
          fails \in FailChoices : Klines(symbol, interval, limit, fails)

InitKlinesMode == InitLoader /\ InitEngine /\ InitKlines

SpecKlines == InitKlinesMode /\ [][KlinesNext]_vars

-----------------------------------------------------------------------------
(* Long runs with a failing callback and no trades: the failure ceiling *)

CeilingLengths == {20, 100, 110, 160}

(* the callback raises on f ticks: s, s + stride, s + 2 * stride, ... *)
FailurePlans ==
    {[free |-> FALSE, fail |-> {s + k * stride : k \in 0 .. (f - 1)}] :
        s \in {1, 6}, stride \in {1, 6}, f \in {3, 11, 12, 15, 17}}

InitCeiling ==
    /\ upstream = UpstreamData(0, {})
    /\ memory_cache = EmptyMap
    /\ disk_cache = EmptyMap
    /\ requests = 0
    /\ InitEngine
    /\ mode = "futures"
    /\ \E n \in CeilingLengths, b \in InitialBalances :
          /\ run_args = [RunArg(n - 1, <<>>) EXCEPT !.initial_balance = b]
          /\ balance = R(b)
    /\ schedule \in FailurePlans
    /\ strategy = NoStrategy
    /\ prefetch = NoPrefetch
    /\ download = NoDownload
    /\ pc = "start"
    /\ current_time = NoTime
    /\ positions = EmptyMap
    /\ trades = <<>>
    /\ leverage = run_args.leverage
    /\ balances = EmptyMap
    /\ spot_loader = "none"

CeilingNext ==
    \/ RunStart
    \/ TickBegin
    \/ ScoutReturn
    \/ ScoutRaise
    \/ Finish

SpecCeiling == InitCeiling /\ [][CeilingNext]_vars

----------------------------------------------------------------------------
(* The DataLoader driven directly, with an upstream whose requests may fail *)

(* [start_ms, end_ms] inside month 0, across months 0 and 1, inside month 1 *)
RangeChoices ==
    {<<0, 3 * MinuteMs>>, <<MonthMs - 2 * MinuteMs, MonthMs + 2 * MinuteMs>>,
     <<MonthMs + MinuteMs, MonthMs + 4 * MinuteMs>>}

InitLoaderMode ==
    /\ InitLoader
    /\ InitEngine
    /\ mode = "loader"
    /\ \E c \in BOOLEAN : run_args = [RunArg(0, <<>>) EXCEPT !.client = c]
    /\ schedule = Free
    /\ strategy = NoStrategy
    /\ prefetch = NoPrefetch
    /\ download = NoDownload
    /\ pc = "api"
    /\ current_time = NoTime
    /\ balance = R(0)
    /\ positions = EmptyMap
    /\ trades = <<>>
    /\ leverage = DefaultLeverage
    /\ balances = EmptyMap
    /\ spot_loader = "none"

(* prev: the arguments and the result of the call before this one *)
LoaderDone(r, symbol, interval, start_ms, end_ms) ==
    /\ SetLoader(r.ld)
    /\ last' = [op |-> "get_klines", symbol |-> symbol, interval |-> interval,
                start_ms |-> start_ms, end_ms |-> end_ms, result |-> r.klines,
                log |-> r.log, before |-> Loader,
                prev |-> IF last.op = "get_klines"
                         THEN [op |-> "get_klines", symbol |-> last.symbol,
                               interval |-> last.interval, start_ms |-> last.start_ms,
                               end_ms |-> last.end_ms, result |-> last.result]
                         ELSE NoCall]

(* DataLoader.get_klines(symbol, interval, start_ms, end_ms) *)
LoaderGet(symbol, interval, start_ms, end_ms, fails) ==
    /\ mode = "loader" /\ ops < MaxOps
    /\ LoaderDone(get_klines(Loader, run_args.client, symbol, interval, start_ms,
                             end_ms, fails), symbol, interval, start_ms, end_ms)
    /\ ops' = ops + 1
    /\ UNCHANGED <<exchangeVars, engineVars, spotVars, inputVars>>

(* a later process: a new DataLoader over the same cache directory *)
Restart ==
    /\ mode = "loader" /\ memory_cache # EmptyMap
    /\ memory_cache' = EmptyMap
    /\ UNCHANGED <<upstream, disk_cache, requests, exchangeVars, engineVars, ops, last,
                   spotVars, inputVars>>

LoaderNext ==
    \/ \E symbol \in TradeSymbols, interval \in Intervals, rg \in RangeChoices,
          fails \in FailChoices : LoaderGet(symbol, interval, rg[1], rg[2], fails)
    \/ Restart

SpecLoader == InitLoaderMode /\ [][LoaderNext]_vars

----------------------------------------------------------------------------
(* The futures strategies and the two managers they are written against:
   BacktestAPIManager (adapter "backtest") and BinanceFuturesAPIManager
   (adapter "live", the exchange itself being outside the repository) *)

(* attribute access obj.name; a dict has items and no such attribute *)
getattr(obj, name) == IF name \in DOMAIN obj THEN obj[name] ELSE AttributeError

(* a Python dict, as opposed to an object with attributes *)
dict(items) == [dict |-> items]

RNeg(x) == RSub(R(0), x)
RAbs(x) == IF RLt(x, R(0)) THEN RNeg(x) ELSE x

(* the dict BacktestAPIManager.get_all_positions appends for one position:
   'symbol' is the key of self.positions, the amounts are strings *)
position_dict(key, pos, current_price) ==
    dict([symbol |-> key,
          positionSide |-> pos.side,
          positionAmt |-> str(IF pos.side = "LONG" THEN pos.quantity
                              ELSE RNeg(pos.quantity)),
          entryPrice |-> str(pos.entry_price),
          markPrice |-> str(current_price),
          unRealizedProfit |-> str(unrealized_pnl(pos, current_price)),
          liquidationPrice |-> str(R(0))])

(* BacktestAPIManager.get_all_positions: positions with a quantity and a mark
   price, the loader state threaded through the get_mark_price calls *)
RECURSIVE positions_loop(_, _, _, _, _)
RECURSIVE positions_pick(_, _, _, _, _, _)
RECURSIVE positions_add(_, _, _, _, _, _)
positions_loop(keys, ex, ld, client, result) ==
    IF keys = {} THEN [positions |-> result, ld |-> ld]
    ELSE positions_pick(CHOOSE k \in keys : TRUE, keys, ex, ld, client, result)

positions_pick(key, keys, ex, ld, client, result) ==
    IF RLt(R(0), ex.positions[key].quantity)
    THEN positions_add(key, keys, ex, client, result,
                       get_mark_price(ld, client, ex.current_time,
                                      ex.positions[key].symbol, NoFail))
    ELSE positions_loop(keys \ {key}, ex, ld, client, result)

positions_add(key, keys, ex, client, result, mp) ==
    positions_loop(keys \ {key}, ex, mp.ld, client,
                   IF Truthy(mp.price)
                   THEN Append(result, position_dict(key, ex.positions[key], mp.price))
                   ELSE result)

get_all_positions(ex, ld, client) ==
    positions_loop(DOMAIN ex.positions, ex, ld, client, <<>>)

(* the row futures_position_information() of the exchange gives for a position *)
position_row(symbol, side, quantity, entry_price, mark_price) ==
    [symbol |-> symbol,
     positionSide |-> side,
     positionAmt |-> str(IF side = "LONG" THEN quantity ELSE RNeg(quantity)),
     entryPrice |-> str(entry_price),
     markPrice |-> str(mark_price),
     unRealizedProfit |->
        str(IF side = "LONG" THEN RMul(RSub(mark_price, entry_price), quantity)
            ELSE RMul(RSub(entry_price, mark_price), quantity)),
     liquidationPrice |-> str(R(0))]

(* FuturesPosition(...) as BinanceFuturesAPIManager.get_all_positions builds it *)
FuturesPosition(pos) ==
    [symbol |-> pos.symbol,
     side |-> pos.positionSide,
     quantity |-> RAbs(float(pos.positionAmt)),
     entry_price |-> float(pos.entryPrice),
     mark_price |-> float(pos.markPrice),
     unrealized_profit |-> float(pos.unRealizedProfit),
     liquidation_price |-> float(pos.liquidationPrice)]

(* BinanceFuturesAPIManager.get_all_positions over the exchange's rows *)
live_get_all_positions(rows) ==
    LET NonZero(pos) == RLt(R(0), RAbs(float(pos.positionAmt)))
        kept == SelectSeq(rows, NonZero)
    IN  [j \in DOMAIN kept |-> FuturesPosition(kept[j])]

(* Strategy of futures_multi_coin_strategy.py *)
stop_loss_pct == 5
take_profit_pct == 15
max_positions == 6

(* pnl_pct of _check_position_risk *)
pnl_pct_of(side, entry_price, mark_price) ==
    IF side = "LONG"
    THEN RMul(RDiv(RSub(mark_price, entry_price), entry_price), R(100))
    ELSE RMul(RDiv(RSub(entry_price, mark_price), entry_price), R(100))

(* the stop-loss and the take-profit test *)
risk_triggered(pnl_pct) ==
    RLe(pnl_pct, RNeg(R(stop_loss_pct))) \/ RLe(R(take_profit_pct), pnl_pct)

(* Strategy._check_position_risk: whether the position is to be closed, or the
   exception the attribute access raises *)
check_position_risk(position) ==
    IF IsRaised(getattr(position, "entry_price")) THEN AttributeError
    ELSE IF RLe(position.entry_price, R(0)) THEN [close |-> FALSE]
    ELSE [close |-> risk_triggered(pnl_pct_of(position.side, position.entry_price,
                                              position.mark_price))]

(* the order _close_position places *)
close_order(position) ==
    [side |-> position.side, action |-> "CLOSE", symbol |-> position.symbol,
     quantity |-> position.quantity]

closed_by(r, st, order) ==
    [ex |-> r.ex, ld |-> r.ld, orders |-> Append(st.orders, order)]

(* Strategy._close_position: manager.close_long / close_short; the simulator
   settles the order at once, the live manager sends it to the exchange *)
close_position(adapter, client, position, st) ==
    IF adapter = "backtest"
    THEN closed_by(execute_trade(st.ex, st.ld, client, position.side, "CLOSE",
                                 position.symbol, position.quantity, NoFail),
                   st, close_order(position))
    ELSE [st EXCEPT !.orders = Append(@, close_order(position))]

(* for position in positions: self._check_position_risk(position) *)
RECURSIVE risk_loop(_, _, _, _, _)
RECURSIVE risk_next(_, _, _, _, _, _)
risk_loop(adapter, client, positions_list, j, st) ==
    IF j > Len(positions_list)
    THEN [ex |-> st.ex, ld |-> st.ld, orders |-> st.orders, raised |-> "none"]
    ELSE risk_next(adapter, client, positions_list, j, st,
                   check_position_risk(positions_list[j]))

risk_next(adapter, client, positions_list, j, st, c) ==
    IF IsRaised(c)
    THEN [ex |-> st.ex, ld |-> st.ld, orders |-> st.orders, raised |-> c.raised]
    ELSE risk_loop(adapter, client, positions_list, j + 1,
                   IF c.close THEN close_position(adapter, client, positions_list[j], st)
                   ELSE st)

(* what a tick saw of each position: symbol, side, quantity, entry and mark *)
seen_of(observed) ==
    [j \in DOMAIN observed |->
        [symbol |-> observed[j].dict.symbol[1],
         side |-> observed[j].dict.positionSide,
         quantity |-> RAbs(float(observed[j].dict.positionAmt)),
         entry_price |-> float(observed[j].dict.entryPrice),
         mark_price |-> float(observed[j].dict.markPrice)]]

(* the rows of a live account that holds the positions seen *)
rows_of(seen) ==
    [j \in DOMAIN seen |-> position_row(seen[j].symbol, seen[j].side, seen[j].quantity,
                                        seen[j].entry_price, seen[j].mark_price)]

MultiCoin(adapter) ==
    [class |-> "futures_multi_coin_strategy", adapter |-> adapter, scout_count |-> 0]

ScoutDone(adapter, seen, r) ==
    /\ SetLoader(r.ld)
    /\ balance' = r.ex.balance
    /\ positions' = r.ex.positions
    /\ trades' = r.ex.trades
    /\ strategy' = [strategy EXCEPT !.scout_count = @ + 1]
    /\ last' = [op |-> "scout", adapter |-> adapter, seen |-> seen,
                orders |-> r.orders, raised |-> r.raised, at |-> current_time]

(* the heartbeat of every sixth scout: get_usdt_balance and get_all_positions *)
heartbeat(count, ex, ld, client) ==
    IF count % 6 = 0 THEN get_all_positions(ex, ld, client).ld ELSE ld

scout_risk(adapter, client, observed, ex) ==
    risk_loop(adapter, client, observed.positions, 1,
              [ex |-> ex, ld |-> observed.ld, orders |-> <<>>])

(* Strategy.scout on the simulator, on a tick on which get_all_positions
   returns a position: the risk pass over what it returned, inside the
   try/except of scout, which logs the exception and ends the tick *)
ScoutBacktest ==
    /\ mode = "strategy" /\ strategy.adapter = "backtest"
    /\ strategy.scout_count < MaxOps
    /\ LET observed == get_all_positions(
                           Exchange,
                           heartbeat(strategy.scout_count + 1, Exchange, Loader,
                                     run_args.client),
                           run_args.client)
       IN  /\ observed.positions # <<>>
           /\ scout_risk("backtest", run_args.client, observed, Exchange).raised # "none"
           /\ ScoutDone("backtest", seen_of(observed.positions),
                        scout_risk("backtest", run_args.client, observed, Exchange))
    /\ UNCHANGED <<leverage, current_time, engineVars, ops, spotVars, mode, run_args,
                   schedule, prefetch, download>>

(* the opening orders the scan of a live tick may place: they depend on the
   exchange's klines, balance and mark prices *)
ScanOrders ==
    {<<>>, <<[side |-> "LONG", action |-> "OPEN", symbol |-> "ETHUSDT"]>>}

(* Strategy.scout on the live manager, whose account holds the positions of
   `positions` at the mark prices of the same bars: the risk pass, then the scan
   while fewer than max_positions are held *)
ScoutLive ==
    /\ mode = "strategy" /\ strategy.adapter = "live"
    /\ strategy.scout_count < MaxOps
    /\ LET seen == seen_of(get_all_positions(Exchange, Loader, run_args.client).positions)
           r == risk_loop("live", run_args.client, live_get_all_positions(rows_of(seen)),
                          1, [ex |-> Exchange, ld |-> Loader, orders |-> <<>>])
       IN  /\ seen # <<>>
           /\ \E opened \in ScanOrders :
                 /\ (Len(seen) >= max_positions => opened = <<>>)
                 /\ strategy' = [strategy EXCEPT !.scout_count = @ + 1]
                 /\ last' = [op |-> "scout", adapter |-> "live", seen |-> seen,
                             orders |-> r.orders, raised |-> r.raised,
                             at |-> current_time, opened |-> opened]
    /\ UNCHANGED <<loaderVars, exchangeVars, engineVars, ops, spotVars, mode, run_args,
                   schedule, prefetch, download>>

(* the replay driver, or the wall clock, moves on to the next bar *)
StrategyTime ==
    /\ mode = "strategy"
    /\ current_time + MinuteMs < HorizonMs
    /\ current_time < StartMs + MaxTicks * MinuteMs
    /\ current_time' = current_time + MinuteMs
    /\ UNCHANGED <<loaderVars, balance, positions, trades, leverage, engineVars, ops,
                   last, spotVars, inputVars>>

(* a position opened on an earlier tick at entry_price *)
HeldPosition(symbol, side, entry_price) ==
    [symbol |-> symbol, side |-> side, quantity |-> R(1), entry_price |-> R(entry_price),
     entry_time |-> 0, total_margin |-> Rat(entry_price, DefaultLeverage)]

HeldChoices ==
    {(position_key(s, d) :> HeldPosition(s, d, e)) :
        s \in Symbols, d \in Sides, e \in {100, 110}}
    \cup {(position_key("BTCUSDT", "LONG") :> HeldPosition("BTCUSDT", "LONG", 100))
          @@ (position_key("ETHUSDT", d) :> HeldPosition("ETHUSDT", d, e)) :
             d \in Sides, e \in {100, 110}}

InitStrategy ==
    /\ \E path \in 0 .. 3 : upstream = UpstreamData(path, {})
    /\ memory_cache = EmptyMap
    /\ disk_cache = EmptyMap
    /\ requests = 0
    /\ InitEngine
    /\ mode = "strategy"
    /\ run_args = RunArg(0, <<>>)
    /\ schedule = Free
    /\ strategy \in {MultiCoin("backtest"), MultiCoin("live")}
    /\ prefetch = NoPrefetch
    /\ download = NoDownload
    /\ pc = "api"
    /\ current_time = StartMs
    /\ balance = R(1000)
    /\ positions \in HeldChoices
    /\ trades = <<>>
    /\ leverage = DefaultLeverage
    /\ balances = EmptyMap
    /\ spot_loader = "none"

StrategyNext == ScoutBacktest \/ ScoutLive \/ StrategyTime

SpecStrategy == InitStrategy /\ [][StrategyNext]_vars

----------------------------------------------------------------------------
(* warm_cache.py: download workers, the writer thread and the main thread
   around write_queue, cache, cache_lock and stop_event.  prefetch is the record
   of all of them; a key is <<symbol, chunk, bar>>, chunk being the 1000-minute
   window and bar the position of the kline in it *)

QueueMax == 2                          \* write_queue maxsize (1000 in the source)
BatchSize == 3                         \* batch_size (5000 in the source)
max_retries == 3
Pairs == {"ADAUSDT", "BTCUSDT"}        \* pairs_to_download
Chunks == {1, 2}                       \* 1000-minute windows between START_DATE and END_DATE
ChunkBars == <<1, 2>>                  \* positions of the klines a full chunk holds

PriceOf(key) == 100 + key[3]

(* the (cache_key, price) tuples put for the klines of one chunk *)
chunk_items(symbol, chunk) ==
    [j \in DOMAIN ChunkBars |-> [key |-> <<symbol, chunk, ChunkBars[j]>>,
                                 price |-> PriceOf(<<symbol, chunk, ChunkBars[j]>>)]]

first_key(symbol, chunk) == <<symbol, chunk, 1>>

(* a worker at the start of an attempt: current_date, total_bars, skipped_bars *)
attempt_start(wk) ==
    [wk EXCEPT !.pc = "chunk", !.chunk = 1, !.total_bars = 0, !.skipped_bars = 0,
               !.enqueued = 0, !.attempts = @ + 1]

WorkerStart ==
    attempt_start([pc |-> "chunk", retry_count |-> 0, chunk |-> 1, pending |-> <<>>,
                   total_bars |-> 0, skipped_bars |-> 0, enqueued |-> 0, attempts |-> 0,
                   sleeps |-> <<>>, result |-> None])

(* faults: how many calls of the exchange client raise during the run *)
PrefetchStart(cached, pairs, faults) ==
    [main |-> "executor", queue |-> <<>>, unfinished |-> 0, cache |-> cached,
     batch |-> <<>>, lock |-> "free", stop_event |-> FALSE, closed |-> FALSE,
     writer |-> "loop", found |-> "nothing", workers |-> [w \in pairs |-> WorkerStart],
     put_log |-> {}, join_timed_out |-> FALSE, faults |-> faults]

(* queue.Queue.put: room for one more item *)
has_room(q) == Len(q) < QueueMax

(* cache_lock is taken whatever its state *)
lock_free_unchecked(lock) == TRUE

(* cache_lock can be acquired *)
lock_free(lock) == lock = "free"

(* for cache_key, price in batch: cache[cache_key] = price *)
RECURSIVE write_batch(_, _)
write_batch(cache, batch) ==
    IF batch = <<>> THEN cache
    ELSE write_batch([k \in DOMAIN cache \cup {batch[1].key} |->
                         IF k = batch[1].key THEN batch[1].price ELSE cache[k]],
                     Tail(batch))

(* str(e), the text a failure result carries (a record, as None is) *)
error_msg(text) == [msg |-> text]

(* the exception leaves download_pair_data once the retries are used up *)
handle_exception_reraise(wk, symbol, invalid) ==
    IF invalid
    THEN [wk EXCEPT !.retry_count = @ + 1, !.pc = "returned",
                    !.result = [symbol |-> symbol, bars |-> 0,
                                error |-> error_msg("Invalid symbol"), skipped |-> 0]]
    ELSE IF wk.retry_count + 1 < max_retries
    THEN attempt_start([wk EXCEPT !.retry_count = @ + 1,
                                  !.sleeps = Append(@, 2 ^ (wk.retry_count + 1))])
    ELSE [wk EXCEPT !.retry_count = @ + 1, !.pc = "raised"]

(* except Exception as e: of download_pair_data *)
handle_exception(wk, symbol, invalid) ==
    IF invalid
    THEN [wk EXCEPT !.retry_count = @ + 1, !.pc = "returned",
                    !.result = [symbol |-> symbol, bars |-> 0,
                                error |-> error_msg("Invalid symbol"), skipped |-> 0]]
    ELSE IF wk.retry_count + 1 < max_retries
    THEN attempt_start([wk EXCEPT !.retry_count = @ + 1,
                                  !.sleeps = Append(@, 2 ^ (wk.retry_count + 1))])
    ELSE [wk EXCEPT !.retry_count = @ + 1, !.pc = "returned",
                    !.result = [symbol |-> symbol, bars |-> 0,
                                error |-> error_msg("retries failed"), skipped |-> 0]]

(* return symbol, total_bars, None, skipped_bars *)
returned_ok(wk, symbol) ==
    [wk EXCEPT !.pc = "returned",
               !.result = [symbol |-> symbol, bars |-> wk.total_bars, error |-> None,
                           skipped |-> wk.skipped_bars]]

PrefetchStep(p) ==
    /\ mode = "prefetch"
    /\ prefetch' = p
    /\ UNCHANGED <<loaderVars, exchangeVars, engineVars, ops, last, spotVars, mode,
                   run_args, schedule, strategy, download>>

(* while current_date < end_date: ... with cache_lock: *)
WorkerAcquire(w) ==
    /\ mode = "prefetch"
    /\ w \in DOMAIN prefetch.workers
    /\ prefetch.workers[w].pc = "chunk"
    /\ prefetch.workers[w].chunk \in Chunks
    /\ lock_free(prefetch.lock)
    /\ PrefetchStep([prefetch EXCEPT !.lock = w, !.workers[w].pc = "check"])

(* the loop is over: the attempt succeeded *)
WorkerReturn(w) ==
    /\ mode = "prefetch"
    /\ w \in DOMAIN prefetch.workers
    /\ prefetch.workers[w].pc = "chunk"
    /\ prefetch.workers[w].chunk \notin Chunks
    /\ PrefetchStep([prefetch EXCEPT !.workers[w] = returned_ok(@, w)])

(* if first_key in cache: skip the chunk; the lock is released *)
WorkerCheck(w) ==
    /\ mode = "prefetch"
    /\ w \in DOMAIN prefetch.workers
    /\ prefetch.workers[w].pc = "check"
    /\ PrefetchStep(
          IF first_key(w, prefetch.workers[w].chunk) \in DOMAIN prefetch.cache
          THEN [prefetch EXCEPT !.lock = "free",
                                !.workers[w].pc = "chunk",
                                !.workers[w].skipped_bars = @ + Len(ChunkBars),
                                !.workers[w].chunk = @ + 1]
          ELSE [prefetch EXCEPT !.lock = "free", !.workers[w].pc = "download"])

DownloadOutcomes == {"klines", "empty", "error", "invalid"}

(* client.get_historical_klines: klines, nothing, or an exception *)
WorkerDownload(w, outcome) ==
    /\ mode = "prefetch"
    /\ w \in DOMAIN prefetch.workers
    /\ prefetch.workers[w].pc = "download"
    /\ (outcome \in {"error", "invalid"} => prefetch.faults > 0)
    /\ PrefetchStep(
          CASE outcome = "klines" ->
                 [prefetch EXCEPT !.workers[w].pc = "put",
                                  !.workers[w].pending =
                                      chunk_items(w, prefetch.workers[w].chunk)]
            [] outcome = "empty" ->
                 [prefetch EXCEPT !.workers[w] = returned_ok(@, w)]
            [] OTHER ->
                 [prefetch EXCEPT !.faults = @ - 1,
                                  !.workers[w] =
                                      handle_exception(@, w, outcome = "invalid")])

(* write_queue.put((cache_key, price)), blocking while the queue is full; after
   the last kline of the chunk: total_bars += len(klines), next chunk *)
WorkerPut(w) ==
    /\ mode = "prefetch"
    /\ w \in DOMAIN prefetch.workers
    /\ prefetch.workers[w].pc = "put"
    /\ has_room(prefetch.queue)
    /\ LET wk == prefetch.workers[w]
           item == Head(wk.pending)
           put == [wk EXCEPT !.pending = Tail(@), !.enqueued = @ + 1]
       IN  PrefetchStep(
              [prefetch EXCEPT
                 !.queue = Append(@, item),
                 !.unfinished = @ + 1,
                 !.put_log = @ \cup {item},
                 !.workers[w] =
                    IF Tail(wk.pending) = <<>>
                    THEN [put EXCEPT !.pc = "chunk", !.chunk = @ + 1,
                                     !.total_bars = @ + Len(ChunkBars)]
                    ELSE put])

(* while not stop_event.is_set() or not write_queue.empty(): *)
WriterLoop ==
    /\ mode = "prefetch"
    /\ prefetch.writer = "loop"
    /\ PrefetchStep([prefetch EXCEPT
                       !.writer = IF prefetch.stop_event /\ prefetch.queue = <<>>
                                  THEN "final" ELSE "get"])

(* item = write_queue.get(timeout=1) gave an item: the end signal, or a tuple
   appended to the batch; elapsed: commit_interval has passed *)
WriterGet(elapsed) ==
    /\ mode = "prefetch"
    /\ prefetch.writer = "get"
    /\ prefetch.queue # <<>>
    /\ LET item == Head(prefetch.queue)
       IN  PrefetchStep(
              IF item = None
              THEN [prefetch EXCEPT !.queue = Tail(@), !.writer = "final",
                                    !.found = "end"]
              ELSE [prefetch EXCEPT
                      !.queue = Tail(@),
                      !.batch = Append(@, item),
                      !.found = "item",
                      !.writer = IF Len(prefetch.batch) + 1 >= BatchSize \/ elapsed
                                 THEN "commit" ELSE "task_done"])

(* except queue.Empty: the queue stayed empty for the timeout *)
WriterEmpty ==
    /\ mode = "prefetch"
    /\ prefetch.writer = "get"
    /\ prefetch.queue = <<>>
    /\ PrefetchStep([prefetch EXCEPT
                       !.found = "empty",
                       !.writer = IF prefetch.batch # <<>> THEN "flush" ELSE "loop"])

WriterWaiting == {"commit", "flush", "final"}
WriterLocked == {"commit_locked", "flush_locked", "final_locked"}

(* with cache_lock: entered by the writer *)
WriterAcquire ==
    /\ mode = "prefetch"
    /\ prefetch.writer \in WriterWaiting
    /\ prefetch.batch # <<>>
    /\ lock_free(prefetch.lock)
    /\ PrefetchStep([prefetch EXCEPT
                       !.lock = "writer",
                       !.writer = CASE prefetch.writer = "commit" -> "commit_locked"
                                    [] prefetch.writer = "flush" -> "flush_locked"
                                    [] OTHER -> "final_locked"])

(* the batch is written and committed and the lock released; on a cache that
   main has closed the write fails and the thread ends with its batch *)
WriterWrite ==
    /\ mode = "prefetch"
    /\ prefetch.writer \in WriterLocked
    /\ PrefetchStep(
          IF prefetch.closed
          THEN [prefetch EXCEPT !.lock = "free", !.writer = "crashed"]
          ELSE [prefetch EXCEPT
                  !.lock = "free",
                  !.cache = write_batch(@, prefetch.batch),
                  !.batch = <<>>,
                  !.writer = CASE prefetch.writer = "commit_locked" -> "task_done"
                               [] prefetch.writer = "flush_locked" -> "loop"
                               [] OTHER -> "exited"])

(* write_queue.task_done() *)
WriterTaskDone ==
    /\ mode = "prefetch"
    /\ prefetch.writer = "task_done"
    /\ PrefetchStep([prefetch EXCEPT !.unfinished = @ - 1, !.writer = "loop"])

(* after the loop: nothing left to commit *)
WriterExit ==
    /\ mode = "prefetch"
    /\ prefetch.writer = "final"
    /\ prefetch.batch = <<>>
    /\ PrefetchStep([prefetch EXCEPT !.writer = "exited"])

(* the with ThreadPoolExecutor block ends when every worker has returned *)
MainExecutor ==
    /\ mode = "prefetch"
    /\ prefetch.main = "executor"
    /\ \A w \in DOMAIN prefetch.workers : prefetch.workers[w].pc \in {"returned", "raised"}
    /\ PrefetchStep([prefetch EXCEPT !.main = "queue_join"])

(* write_queue.join() returns: every item put has had its task_done *)
MainQueueJoin ==
    /\ mode = "prefetch"
    /\ prefetch.main = "queue_join"
    /\ prefetch.unfinished = 0
    /\ PrefetchStep([prefetch EXCEPT !.main = "stop"])

(* stop_event.set() *)
MainStop ==
    /\ mode = "prefetch"
    /\ prefetch.main = "stop"
    /\ PrefetchStep([prefetch EXCEPT !.stop_event = TRUE, !.main = "sentinel"])

(* write_queue.put(None) *)
MainSentinel ==
    /\ mode = "prefetch"
    /\ prefetch.main = "sentinel"
    /\ has_room(prefetch.queue)
    /\ PrefetchStep([prefetch EXCEPT !.queue = Append(@, None), !.unfinished = @ + 1,
                                     !.main = "writer_join"])

(* writer_thread.join(timeout=10): the thread has ended, or the ten seconds
   have passed while it has not *)
MainWriterJoin ==
    /\ mode = "prefetch"
    /\ prefetch.main = "writer_join"
    /\ PrefetchStep([prefetch EXCEPT
                       !.main = "close",
                       !.join_timed_out = prefetch.writer \notin {"exited", "crashed"}])

(* cache.close() *)
MainClose ==
    /\ mode = "prefetch"
    /\ prefetch.main = "close"
    /\ PrefetchStep([prefetch EXCEPT !.closed = TRUE, !.main = "finished"])

(* what an earlier run of the tool left in the cache file *)
CachedBefore ==
    {EmptyMap,
     [k \in {first_key("ADAUSDT", 1)} |-> PriceOf(k)],
     [k \in {first_key("ADAUSDT", 1), first_key("BTCUSDT", 1), first_key("BTCUSDT", 2)}
        |-> PriceOf(k)]}

(* the whole tool with at most one failing call, and one pair alone whose
   calls may fail until the retries are used up *)
PrefetchRuns ==
    {[pairs |-> Pairs, faults |-> 0], [pairs |-> Pairs, faults |-> 1],
     [pairs |-> {"ADAUSDT"}, faults |-> max_retries]}

InitPrefetch ==
    /\ upstream = UpstreamData(0, {})
    /\ memory_cache = EmptyMap
    /\ disk_cache = EmptyMap
    /\ requests = 0
    /\ InitEngine
    /\ mode = "prefetch"
    /\ run_args = RunArg(0, <<>>)
    /\ schedule = Free
    /\ strategy = NoStrategy
    /\ \E cached \in CachedBefore, run \in PrefetchRuns :
          prefetch = PrefetchStart(cached, run.pairs, run.faults)
    /\ download = NoDownload
    /\ pc = "api"
    /\ current_time = NoTime
    /\ balance = R(0)
    /\ positions = EmptyMap
    /\ trades = <<>>
    /\ leverage = DefaultLeverage
    /\ balances = EmptyMap
    /\ spot_loader = "none"

PrefetchNext ==
    \/ \E w \in Pairs : WorkerAcquire(w) \/ WorkerReturn(w) \/ WorkerCheck(w) \/ WorkerPut(w)
    \/ \E w \in Pairs, outcome \in DownloadOutcomes : WorkerDownload(w, outcome)
    \/ WriterLoop \/ WriterEmpty \/ WriterAcquire \/ WriterWrite \/ WriterTaskDone
    \/ WriterExit
    \/ \E elapsed \in BOOLEAN : WriterGet(elapsed)
    \/ MainExecutor \/ MainQueueJoin \/ MainStop \/ MainSentinel \/ MainWriterJoin
    \/ MainClose

SpecPrefetch == InitPrefetch /\ [][PrefetchNext]_vars

(***************************************************************************)
(* strategies/cross_sectional_strategy.py: the IDLE / TREND_LOCK machine   *)
(***************************************************************************)
PERSISTENCE_PERIODS == 3
EXIT_PERSISTENCE == 3
CsTicks == 8                           \* scout ticks of one cross-sectional run

Coin(symbol) == [symbol |-> symbol]
BRIDGE == Coin("USDT")
Tradeable == {"ADA", "BTC", "ETH"}
(* datetime.now() on the tick numbered n *)
datetime(n) == [at |-> n]

(* CrossSectionalState.__init__ *)
CrossSectionalState ==
    [mode |-> "IDLE", locked_coin |-> None, lock_entry_price |-> None,
     lock_entry_time |-> None, trigger_count |-> [sym \in {} |-> 0],
     collapse_count |-> 0]

(* CrossSectionalState.reset_lock *)
reset_lock(state) ==
    [state EXCEPT !.mode = "IDLE", !.locked_coin = None, !.lock_entry_price = None,
                  !.lock_entry_time = None, !.collapse_count = 0]

(* the strategy object, the current coin of its database, and, as history,
   the outcome of the tick just run, the manager calls it made and the last
   EXIT_PERSISTENCE verdicts of _detect_collapse since the lock was entered *)
CrossSectional(current_coin) ==
    [class |-> "cross_sectional_strategy", state |-> CrossSectionalState,
     current_coin |-> current_coin, scout_count |-> 0, tick |-> "none",
     calls |-> <<>>, signals |-> <<>>]

(* the decay loops of _scout_idle_mode: every count but the dominant coin's
   loses one, and a count that reaches 0 is deleted *)
decay(trigger_count, dominant) ==
    [sym \in {s \in DOMAIN trigger_count : s = dominant \/ trigger_count[s] > 1} |->
        IF sym = dominant THEN trigger_count[sym] ELSE trigger_count[sym] - 1]

(* trigger_count[symbol] += 1 on a defaultdict(int) *)
increment(trigger_count, symbol) ==
    [sym \in DOMAIN trigger_count \cup {symbol} |->
        IF sym = symbol
        THEN (IF sym \in DOMAIN trigger_count THEN trigger_count[sym] ELSE 0) + 1
        ELSE trigger_count[sym]]

(* _get_all_prices: the coins whose ticker price is present and positive *)
get_all_prices(coins, ticker) ==
    [sym \in {c \in coins : c \in DOMAIN ticker /\ Truthy(ticker[c])
                            /\ RLt(R(0), ticker[c])} |-> ticker[sym]]

(* _detect_extreme_event: nothing with fewer than three priced coins;
   otherwise the verdict of the percentile tests over the score history *)
detect_extreme_event(coins, prices, verdict) ==
    IF Cardinality(coins \cap DOMAIN prices) < 3 THEN None
    ELSE IF verdict \in coins \cap DOMAIN prices THEN Coin(verdict)
    ELSE None

(* _detect_collapse: a locked coin without data counts as collapsed;
   otherwise the verdict of the percentile tests over the score history *)
detect_collapse(locked_coin, coins, prices, verdict) ==
    IF locked_coin.symbol \notin coins \cap DOMAIN prices THEN TRUE ELSE verdict

(* a manager call: it raises when the exchange fails, and nothing after it runs *)
cs_raise(s, calls) == [s EXCEPT !.tick = "raised", !.calls = calls]

(* _trigger_trend_lock *)
trigger_trend_lock(s, coin, entry_price, now, fails) ==
    LET swaps == IF s.current_coin # coin
                 THEN (IF s.current_coin # BRIDGE
                       THEN <<[call |-> "sell_alt", coin |-> s.current_coin]>>
                       ELSE <<>>)
                      \o <<[call |-> "buy_alt", coin |-> coin]>>
                 ELSE <<>>
    IN  IF fails /\ swaps # <<>>
        THEN cs_raise(s, <<swaps[1]>>)
        ELSE [s EXCEPT !.current_coin = coin,
                       !.calls = swaps,
                       !.tick = "entered",
                       !.signals = <<>>,
                       !.state = [mode |-> "TREND_LOCK", locked_coin |-> coin,
                                  lock_entry_price |-> entry_price,
                                  lock_entry_time |-> now,
                                  trigger_count |-> [sym \in {} |-> 0],
                                  collapse_count |-> 0]]

(* _exit_trend_lock *)
exit_trend_lock(s, fails) ==
    LET sell == <<[call |-> "sell_alt", coin |-> s.state.locked_coin]>>
    IN  IF fails
        THEN cs_raise(s, sell)
        ELSE [s EXCEPT !.current_coin = BRIDGE, !.calls = sell, !.tick = "exited",
                       !.state = reset_lock(s.state)]

(* _scout_idle_mode *)
scout_idle_mode(s, coins, ticker, verdict, now, fails) ==
    IF s.current_coin # BRIDGE
    THEN LET sells == IF s.current_coin # None /\ s.current_coin.symbol # BRIDGE.symbol
                      THEN <<[call |-> "sell_alt", coin |-> s.current_coin]>>
                      ELSE <<>>
         IN  IF fails /\ sells # <<>>
             THEN cs_raise(s, sells)
             ELSE [s EXCEPT !.current_coin = BRIDGE, !.calls = sells,
                            !.tick = "to_bridge"]
    ELSE IF Cardinality(coins) < 3
    THEN [s EXCEPT !.tick = "too_few_coins"]
    ELSE LET prices == get_all_prices(coins, ticker)
             dominant_coin == detect_extreme_event(coins, prices, verdict)
         IN  IF DOMAIN prices = {}
             THEN [s EXCEPT !.tick = "no_prices"]
             ELSE IF dominant_coin # None
             THEN LET counted ==
                          [s EXCEPT !.state.trigger_count =
                               increment(decay(@, dominant_coin.symbol),
                                         dominant_coin.symbol),
                                    !.tick = "counted"]
                  IN  IF counted.state.trigger_count[dominant_coin.symbol]
                            >= PERSISTENCE_PERIODS
                      THEN trigger_trend_lock(counted, dominant_coin,
                                              prices[dominant_coin.symbol], now, fails)
                      ELSE counted
             ELSE [s EXCEPT !.state.trigger_count = decay(@, ""),
                            !.tick = "decayed"]

(* the collapse branch of _scout_trend_lock_mode *)
count_collapse(s, fails) ==
    LET counted == [s EXCEPT !.state.collapse_count = @ + 1, !.tick = "collapse",
                             !.signals = LastN(@ \o <<TRUE>>, EXIT_PERSISTENCE)]
    IN  IF counted.state.collapse_count >= EXIT_PERSISTENCE
        THEN exit_trend_lock(counted, fails)
        ELSE counted

(* the recovery branch had it kept the count *)
no_collapse_keeps_count(s) ==
    [s EXCEPT !.tick = "steady",
              !.signals = LastN(@ \o <<FALSE>>, EXIT_PERSISTENCE)]

(* the recovery branch of _scout_trend_lock_mode *)
no_collapse(s) ==
    [s EXCEPT !.state.collapse_count = 0, !.tick = "steady",
              !.signals = LastN(@ \o <<FALSE>>, EXIT_PERSISTENCE)]

(* _scout_trend_lock_mode *)
scout_trend_lock_mode(s, coins, ticker, verdict, fails) ==
    IF s.state.locked_coin = None
    THEN [s EXCEPT !.state = reset_lock(@), !.tick = "reset"]
    ELSE IF s.current_coin = None \/ s.current_coin.symbol # s.state.locked_coin.symbol
    THEN LET swaps == (IF s.current_coin # None /\ s.current_coin # BRIDGE
                       THEN <<[call |-> "sell_alt", coin |-> s.current_coin]>>
                       ELSE <<>>)
                      \o <<[call |-> "buy_alt", coin |-> s.state.locked_coin]>>
         IN  IF fails
             THEN cs_raise(s, <<swaps[1]>>)
             ELSE [s EXCEPT !.current_coin = s.state.locked_coin, !.calls = swaps,
                            !.tick = "relocked"]
    ELSE LET prices == get_all_prices(coins, ticker)
         IN  IF s.state.locked_coin.symbol \notin DOMAIN prices
             THEN [s EXCEPT !.tick = "no_price"]
             ELSE IF detect_collapse(s.state.locked_coin, coins, prices, verdict)
             THEN count_collapse(s, fails)
             ELSE no_collapse(s)

(* the coins the database lists and the ticker the exchange answers with *)
CoinLists == {Tradeable, {"BTC", "ETH"}}
Tickers ==
    {[sym \in priced |-> R(p)] : priced \in {Tradeable, {"ADA", "ETH"}, {}},
                                 p \in {100, 110}}

(* Strategy.scout of the cross-sectional strategy: one tick *)
CsScout ==
    /\ mode = "trend"
    /\ strategy.scout_count < CsTicks
    /\ \E coins \in CoinLists, ticker \in Tickers, fails \in BOOLEAN,
          verdict \in Tradeable \cup {"", "collapse"} :
          LET s == [strategy EXCEPT !.scout_count = @ + 1, !.calls = <<>>]
              now == datetime(s.scout_count)
          IN  /\ strategy' =
                    IF s.state.mode = "IDLE"
                    THEN scout_idle_mode(s, coins, ticker, verdict, now, fails)
                    ELSE IF s.state.mode = "TREND_LOCK"
                    THEN scout_trend_lock_mode(s, coins, ticker,
                                               verdict = "collapse", fails)
                    ELSE [s EXCEPT !.tick = "none"]
              /\ last' = [op |-> "cs_scout", before |-> strategy.state,
                          verdict |-> verdict, raised |-> FALSE]
    /\ UNCHANGED <<loaderVars, exchangeVars, engineVars, ops, spotVars, mode, run_args,
                   schedule, prefetch, download>>

(* another writer of the database moves the current coin while a coin is locked *)
CurrentCoinMoved ==
    /\ mode = "trend"
    /\ strategy.state.mode = "TREND_LOCK"
    /\ strategy.current_coin = strategy.state.locked_coin
    /\ strategy.scout_count < CsTicks
    /\ \E c \in {None, BRIDGE} :
          strategy' = [strategy EXCEPT !.current_coin = c, !.tick = "moved",
                                       !.calls = <<>>]
    /\ UNCHANGED <<loaderVars, exchangeVars, engineVars, ops, last, spotVars, mode,
                   run_args, schedule, prefetch, download>>

InitTrend ==
    /\ upstream = UpstreamData(0, {})
    /\ memory_cache = EmptyMap
    /\ disk_cache = EmptyMap
    /\ requests = 0
    /\ InitEngine
    /\ mode = "trend"
    /\ run_args = RunArg(0, <<>>)
    /\ schedule = Free
    /\ strategy \in {CrossSectional(c) : c \in {None, BRIDGE, Coin("BTC")}}
    /\ prefetch = NoPrefetch
    /\ download = NoDownload
    /\ pc = "api"
    /\ current_time = StartMs
    /\ balance = R(1000)
    /\ positions = EmptyMap
    /\ trades = <<>>
    /\ leverage = DefaultLeverage
    /\ balances = EmptyMap
    /\ spot_loader = "none"

TrendNext == CsScout \/ CurrentCoinMoved

SpecTrend == InitTrend /\ [][TrendNext]_vars

(***************************************************************************)
(* strategies/atr_trailing_strategy.py: the ATR trailing stop              *)
(***************************************************************************)
AtrTicks == 3                          \* scout ticks of one ATR trailing run
k_initial_stop == R(2)
k_be_trigger == Rat(3, 2)
k_trail_dist == Rat(3, 2)
fee_buffer_pct == Rat(1, 5)
time_stop_grace_k == Rat(1, 2)
max_hold_minutes == 24 * 60
atr_update_interval == 30              \* minutes

(* PositionState.__init__ *)
PositionState(symbol, entry_price, entry_time, highest_price, stop_price, trail_active, atr, atr_pct, last_atr_update_time) ==
    [symbol |-> symbol, entry_price |-> entry_price, entry_time |-> entry_time,
     highest_price |-> highest_price, stop_price |-> stop_price,
     trail_active |-> trail_active, atr |-> atr, atr_pct |-> atr_pct,
     last_atr_update_time |-> last_atr_update_time]

(* the strategy object with the current coin of its database, the
   position_states row of that coin (None: no row), the manager's clock in
   minutes, and, as history, the number of rows created so far and the price
   and outcome of the tick just run *)
AtrTrailing ==
    [class |-> "atr_trailing_strategy", current_coin |-> "BTC", st |-> None,
     datetime |-> 0,
     position |-> 0, scout_count |-> 0, price |-> None, tick |-> "none"]

(* get_atr_info: (None, None) without klines or with an ATR that is not
   positive, else (atr, atr / current_price * 100) *)
get_atr_info(computed, current_price) ==
    IF computed = None THEN None
    ELSE IF RLe(computed, R(0)) THEN None
    ELSE [atr |-> computed,
          atr_pct |-> IF RLt(R(0), current_price)
                      THEN RMul(RDiv(computed, current_price), R(100))
                      ELSE R(0)]

(* the row a position starts with, in ensure_position_state and in
   transaction_through_bridge *)
new_position_state(symbol, entry_price, entry_time, info, now) ==
    PositionState(symbol, entry_price, entry_time, entry_price,
                  RSub(entry_price, RMul(k_initial_stop, info.atr)), FALSE,
                  info.atr, info.atr_pct, now)

(* ensure_position_state *)
ensure_position_state(st, symbol, current_price, computed, now) ==
    IF st # None
    THEN IF now - st.last_atr_update_time >= atr_update_interval
         THEN LET info == get_atr_info(computed, current_price)
              IN  IF info = None THEN st
                  ELSE [st EXCEPT !.atr = info.atr, !.atr_pct = info.atr_pct,
                                  !.last_atr_update_time = now]
         ELSE st
    ELSE LET info == get_atr_info(computed, current_price)
         IN  IF info = None THEN None
             ELSE new_position_state(symbol, current_price, now, info, now)

(* the stop had it followed every candidate *)
raise_stop_always(stop_price, candidate) == candidate

(* `if candidate > st.stop_price: st.stop_price = candidate` *)
raise_stop(stop_price, candidate) ==
    IF RLt(stop_price, candidate) THEN candidate ELSE stop_price

(* the break-even stage of update_trailing_stop *)
activate_break_even(st, current_price) ==
    LET pnl == RSub(current_price, st.entry_price)
        be_trigger == RMul(k_be_trigger, st.atr)
        cost_buffer == RMul(st.entry_price, RDiv(fee_buffer_pct, R(100)))
    IN  IF ~st.trail_active /\ RLe(be_trigger, pnl)
        THEN [st EXCEPT !.stop_price = raise_stop(@, RAdd(st.entry_price, cost_buffer)),
                        !.trail_active = TRUE]
        ELSE st

(* the trailing stage of update_trailing_stop *)
trail(st) ==
    IF st.trail_active
    THEN [st EXCEPT !.stop_price =
              raise_stop(@, RSub(st.highest_price, RMul(k_trail_dist, st.atr)))]
    ELSE st

(* update_trailing_stop *)
update_trailing_stop(st, current_price) ==
    trail(activate_break_even(
        [st EXCEPT !.highest_price = IF RLt(@, current_price) THEN current_price ELSE @],
        current_price))

(* should_exit *)
should_exit(st, current_price, now) ==
    IF RLe(current_price, st.stop_price) THEN "STOP"
    ELSE IF now - st.entry_time >= max_hold_minutes
            /\ RLt(RSub(current_price, st.entry_price), RMul(time_stop_grace_k, st.atr))
    THEN "TIME"
    ELSE "none"

(* transaction_through_bridge after a jump that went through: the row of the
   coin left is deleted and, when the fill price can be read from the order
   and an ATR is available, the row of the coin bought is created *)
transaction_through_bridge(s, to_symbol, real_price, computed) ==
    LET info == IF real_price = None THEN None ELSE get_atr_info(computed, real_price)
    IN  IF info = None
        THEN [s EXCEPT !.current_coin = to_symbol, !.st = None,
                       !.tick = "jumped_without_state"]
        ELSE [s EXCEPT !.current_coin = to_symbol,
                       !.st = new_position_state(to_symbol, real_price, s.datetime,
                                                 info, s.datetime),
                       !.position = @ + 1, !.tick = "jumped"]

(* the part of scout that follows ensure_position_state *)
scout_position(s, st, current_price, sold, jump, real_price, computed) ==
    LET updated == update_trailing_stop(st, current_price)
        kept == [s EXCEPT !.st = updated,
                          !.position = IF s.st = None THEN @ + 1 ELSE @]
    IN  IF should_exit(updated, current_price, s.datetime) # "none"
        THEN IF sold
             THEN [kept EXCEPT !.st = None, !.tick = "exited"]
             ELSE [kept EXCEPT !.tick = "exit_failed"]
        ELSE IF jump
        THEN transaction_through_bridge(kept, IF s.current_coin = "BTC" THEN "ETH" ELSE "BTC",
                                        real_price, computed)
        ELSE [kept EXCEPT !.tick = "held"]

(* Strategy.scout of the ATR trailing strategy *)
atr_scout(s, current_price, computed, sold, jump, real_price) ==
    IF current_price = None THEN [s EXCEPT !.tick = "no_price"]
    ELSE IF RLe(current_price, R(0)) THEN [s EXCEPT !.tick = "no_price"]
    ELSE LET st == ensure_position_state(s.st, s.current_coin, current_price, computed,
                                         s.datetime)
         IN  IF st = None
             THEN [s EXCEPT !.tick = "no_atr"]
             ELSE scout_position(s, st, current_price, sold, jump, real_price,
                                 computed)

(* what the ticker, the klines behind the ATR and the clock may give a tick *)
AtrPrices == {R(90), R(100), R(106), R(120)}
AtrComputed == {None, R(0), R(4), R(10)}
AtrElapsed == {15, max_hold_minutes}
(* what the manager answers a sell_alt or a jump with: None, an order whose
   fill price cannot be read, an order filled at 100 *)
AtrOrders == {None, [price |-> None], [price |-> R(100)]}

AtrScout ==
    /\ mode = "atr"
    /\ strategy.scout_count < AtrTicks
    /\ \E current_price \in AtrPrices \cup {None}, computed \in AtrComputed,
          elapsed \in AtrElapsed, order \in AtrOrders :
          strategy' = atr_scout([strategy EXCEPT !.scout_count = @ + 1,
                                                 !.datetime = @ + elapsed,
                                                 !.price = current_price],
                                current_price, computed, order # None, order # None,
                                IF order = None THEN None ELSE order.price)
    /\ last' = [op |-> "atr_scout", before |-> strategy.st]
    /\ UNCHANGED <<loaderVars, exchangeVars, engineVars, ops, spotVars, mode, run_args,
                   schedule, prefetch, download>>

InitAtr ==
    /\ upstream = UpstreamData(0, {})
    /\ memory_cache = EmptyMap
    /\ disk_cache = EmptyMap
    /\ requests = 0
    /\ InitEngine
    /\ mode = "atr"
    /\ run_args = RunArg(0, <<>>)
    /\ schedule = Free
    /\ strategy = AtrTrailing
    /\ prefetch = NoPrefetch
    /\ download = NoDownload
    /\ pc = "api"
    /\ current_time = StartMs
    /\ balance = R(1000)
    /\ positions = EmptyMap
    /\ trades = <<>>
    /\ leverage = DefaultLeverage
    /\ balances = EmptyMap
    /\ spot_loader = "none"

AtrNext == AtrScout

SpecAtr == InitAtr /\ [][AtrNext]_vars

(***************************************************************************)
(* DataLoader._download_from_binance, one request of its loop at a time    *)
(***************************************************************************)
MaxPages == 8                          \* requests of one bucket download

(* the frame of the call: its arguments, the locals current_start and
   all_klines, and, as history, the requests made and how the loop ended *)
DownloadStart(symbol, interval, start_ms, end_ms, failAt) ==
    [pc |-> "loop", symbol |-> symbol, interval |-> interval, start_ms |-> start_ms,
     end_ms |-> end_ms, failAt |-> failAt, current_start |-> start_ms,
     all_klines |-> <<>>, page |-> 1, ended |-> "none", starts |-> <<>>]

(* one pass of the while body: the request raises BinanceAPIException, or
   answers with an empty page, or with bars that are appended before the
   cursor moves on *)
download_step(d, raw_klines) ==
    IF d.page = d.failAt
    THEN [d EXCEPT !.pc = "done", !.ended = "exception",
                   !.starts = Append(@, d.current_start)]
    ELSE IF raw_klines = <<>>
    THEN [d EXCEPT !.pc = "done", !.ended = "empty",
                   !.starts = Append(@, d.current_start)]
    ELSE [d EXCEPT !.all_klines = @ \o raw_klines,
                   !.current_start = next_start(raw_klines),
                   !.page = @ + 1,
                   !.starts = Append(@, d.current_start)]

DownloadRequest ==
    /\ mode = "download"
    /\ download.pc = "loop"
    /\ download.current_start < download.end_ms
    /\ download.page <= MaxPages
    /\ download' = download_step(download,
                                 UpstreamPage(download.symbol, download.interval,
                                              download.current_start, download.end_ms,
                                              PageLimit))
    /\ requests' = requests + 1
    /\ UNCHANGED <<upstream, memory_cache, disk_cache, exchangeVars, engineVars, ops,
                   last, spotVars, mode, run_args, schedule, strategy, prefetch>>

(* `while current_start < end_ms` found false: return all_klines *)
DownloadReturn ==
    /\ mode = "download"
    /\ download.pc = "loop"
    /\ ~(download.current_start < download.end_ms)
    /\ download' = [download EXCEPT !.pc = "done", !.ended = "end"]
    /\ UNCHANGED <<loaderVars, exchangeVars, engineVars, ops, last, spotVars, mode,
                   run_args, schedule, strategy, prefetch>>

(* open times the exchange has no bar for *)
DownloadGaps == {{}, {2 * MinuteMs}, {MinuteMs, 2 * MinuteMs, 3 * MinuteMs},
                 {t * MinuteMs : t \in 2 .. HorizonMinutes},
                 {t * MinuteMs : t \in 0 .. HorizonMinutes}}

InitDownload ==
    /\ \E gaps \in DownloadGaps : upstream = UpstreamData(0, gaps)
    /\ memory_cache = EmptyMap
    /\ disk_cache = EmptyMap
    /\ requests = 0
    /\ InitEngine
    /\ mode = "download"
    /\ run_args = RunArg(0, <<>>)
    /\ schedule = Free
    /\ strategy = NoStrategy
    /\ prefetch = NoPrefetch
    /\ \E symbol \in Symbols, interval \in Intervals, month \in {0, 1},
          failAt \in 0 .. 3 :
          download = DownloadStart(symbol, interval, month * MonthMs,
                                   (month + 1) * MonthMs, failAt)
    /\ pc = "api"
    /\ current_time = NoTime
    /\ balance = R(0)
    /\ positions = EmptyMap
    /\ trades = <<>>
    /\ leverage = DefaultLeverage
    /\ balances = EmptyMap
    /\ spot_loader = "none"

DownloadNext == DownloadRequest \/ DownloadReturn

(* the loop is straight-line code: a request answers or raises, and the next
   statement runs *)
SpecDownload == InitDownload /\ [][DownloadNext]_vars /\ WF_vars(DownloadNext)

----------------------------------------------------------------------------
(* Properties *)

Range(s) == {s[j] : j \in DOMAIN s}

UpstreamBars(symbol, interval) ==
    IF <<symbol, interval>> \in DOMAIN upstream
    THEN Range(upstream[<<symbol, interval>>]) ELSE {}

(* the bars that closed strictly before time t *)
CompletedBefore(symbol, interval, t) ==
    {b \in UpstreamBars(symbol, interval) : b.close_time < t}

(* b is the latest bar that closed strictly before time t *)
MostRecentCompleted(b, symbol, interval, t) ==
    /\ b \in CompletedBefore(symbol, interval, t)
    /\ \A c \in CompletedBefore(symbol, interval, t) : c.open_time <= b.open_time

(* every row closed before t; no row's [open_time, close_time] contains t *)
RowsCompleted(rows, t) ==
    \A j \in DOMAIN rows :
        /\ rows[j][7] < t
        /\ ~(rows[j][1] <= t /\ t <= rows[j][7])

IsOrder(r) == "orderId" \in DOMAIN r

AccountingOf(ex) == [balance |-> ex.balance, positions |-> ex.positions,
                     trades |-> ex.trades]

(* C1: no look-ahead. At virtual time T every bar returned by futures_klines and
   by the spot get_historical_klines has close_time < T, the bar containing T is
   never returned, and a mark / execution price is the close of such a bar (for
   the futures exchange: of the latest one). *)
C1_NoLookahead ==
    /\ (last.op = "futures_klines" /\ ~last.raised)
          => RowsCompleted(last.result, last.at)
    /\ (last.op = "get_historical_klines" /\ ~last.raised)
          => RowsCompleted(last.result, last.at)
    /\ (last.op = "trade" /\ last.price # None)
          => \E b \in UpstreamBars(last.symbol, "1m") :
                /\ MostRecentCompleted(b, last.symbol, "1m", last.at)
                /\ b.close = last.price
    /\ (last.op \in {"buy_alt", "sell_alt"} /\ last.price # None)
          => \E b \in CompletedBefore(ticker_symbol(last.origin, last.target), "5m",
                                      last.at) : b.close = last.price

(* a query inside a 5m bar that the upstream holds returned earlier bars only *)
C1_Witness ==
    /\ last.op = "futures_klines" /\ ~last.raised
    /\ last.interval = "5m"
    /\ last.result # <<>>
    /\ last.at % interval_to_ms("5m") # 0
    /\ \E b \in UpstreamBars(last.symbol, "5m") :
          b.open_time <= last.at /\ last.at <= b.close_time

(* C2: an accepted open debits exactly price * quantity / leverage, the price
   being the close of the latest 1m bar completed before the virtual time. *)
C2_MarginOnOpen ==
    (last.op = "trade" /\ last.action = "OPEN" /\ IsOrder(last.result))
      => \E b \in UpstreamBars(last.symbol, "1m") :
            /\ MostRecentCompleted(b, last.symbol, "1m", last.at)
            /\ balance = RSub(last.before.balance,
                              RDiv(RMul(b.close, last.quantity), R(leverage)))

C2_Witness ==
    /\ last.op = "trade" /\ last.action = "OPEN" /\ IsOrder(last.result)
    /\ last.quantity.n > 0
    /\ leverage > 1
    /\ RLt(balance, last.before.balance)

(* C3: closing q of a position (quantity Q, entry e, margin M) at price p credits
   M*q/Q plus (p-e)*q for LONG, (e-p)*q for SHORT; the position keeps margin
   M - M*q/Q and quantity Q - q, and is removed when nothing is left. *)
C3_CloseSettlement ==
    (last.op = "trade" /\ last.action = "CLOSE" /\ IsOrder(last.result))
      => LET key == <<last.symbol, last.side>>
             pos == last.before.positions[key]
             Q == pos.quantity
             M == pos.total_margin
             e == pos.entry_price
             p == last.price
             q == IF RLt(Q, last.quantity) THEN Q ELSE last.quantity
             returned == RDiv(RMul(M, q), Q)
             pnl == IF last.side = "LONG" THEN RMul(RSub(p, e), q)
                    ELSE RMul(RSub(e, p), q)
         IN  /\ balance = RAdd(last.before.balance, RAdd(returned, pnl))
             /\ trades[Len(trades)].pnl = pnl
             /\ trades[Len(trades)].quantity = q
             /\ IF RLt(q, Q)
                THEN /\ key \in DOMAIN positions
                     /\ positions[key].quantity = RSub(Q, q)
                     /\ positions[key].total_margin = RSub(M, returned)
                ELSE key \notin DOMAIN positions

(* a partial close at a price different from the entry price *)
C3_Witness ==
    /\ last.op = "trade" /\ last.action = "CLOSE" /\ IsOrder(last.result)
    /\ last.quantity.n > 0
    /\ RLt(last.quantity, last.before.positions[<<last.symbol, last.side>>].quantity)
    /\ last.price # last.before.positions[<<last.symbol, last.side>>].entry_price

(* C4: an operation rejected for insufficient margin, a missing position, a
   missing price or (spot) a non-positive source balance returns None, and an
   operation that returned None left balance, positions, trades and the spot
   balances as they were. *)
C4_RejectedUnchanged ==
    /\ last.op = "trade"
          => LET b == last.before
                 key == <<last.symbol, last.side>>
                 rejected ==
                    \/ ~Truthy(last.price)
                    \/ /\ last.action = "OPEN"
                       /\ RLt(b.balance, RDiv(RMul(last.price, last.quantity),
                                              R(b.leverage)))
                    \/ /\ last.action = "CLOSE"
                       /\ key \notin DOMAIN b.positions
             IN  /\ rejected => last.result = None
                 /\ last.result = None => Accounting = AccountingOf(b)
    /\ last.op \in {"buy_alt", "sell_alt"}
          => LET source == IF last.op = "buy_alt" THEN last.target ELSE last.origin
                 rejected ==
                    \/ last.price = None
                    \/ AmtNonPositive(get_currency_balance(last.before, source))
             IN  /\ rejected => last.result = None
                 /\ last.result = None => balances = last.before

(* an open refused for insufficient margin after an earlier accepted trade *)
C4_Witness ==
    /\ last.op = "trade" /\ last.action = "OPEN"
    /\ Truthy(last.price)
    /\ last.result = None
    /\ trades # <<>>

(* C5: a close asking for more than is held closes exactly the held quantity,
   does not raise, and leaves no negative quantity -- a position opened with
   quantity 0 included. *)
C5_OverCloseClamped ==
    LET key == <<last.symbol, last.side>>
    IN  (/\ last.op = "trade" /\ last.action = "CLOSE"
         /\ Truthy(last.price)
         /\ key \in DOMAIN last.before.positions
         /\ RLt(last.before.positions[key].quantity, last.quantity))
          => /\ IsOrder(last.result)
             /\ trades[Len(trades)].quantity = last.before.positions[key].quantity
             /\ \A k \in DOMAIN positions : ~RLt(positions[k].quantity, R(0))

(* ticks whose callback has ended *)
Processed == IF pc = "aborted" THEN i ELSE i - 1

(* C6: one EquityPoint is appended after every tick, whether the callback
   returned or raised; a completed run has one point per timestamp, in order. *)
C6_OnePointPerTick ==
    /\ (mode = "futures" /\ pc \in {"loop", "done", "interrupted"})
          => Len(equity_curve) = Processed
    /\ (mode = "futures" /\ pc = "done")
          => /\ Len(equity_curve) = Len(timestamps)
             /\ \A j \in DOMAIN equity_curve :
                   equity_curve[j].timestamp = timestamps[j]

(* C7: after a tick whose callback raised, balance, positions and trades equal
   their values at the start of that tick. *)
C7_FailedTickNoMutation ==
    (mode = "futures" /\ last.op = "scout" /\ last.result = "raised")
      => Accounting = tick_start

(* C8 as stated: the run is aborted exactly when the failure count exceeds
   max(10, 10% of the ticks processed so far). *)
C8_CeilingOverProcessed ==
    (mode = "futures" /\ pc \in {"loop", "done", "aborted"})
      => (pc = "aborted" <=> (error_count > 10 /\ 10 * error_count > Processed))

(* C8 amended: the run is aborted exactly when the failure count exceeds
   max(10, len(timestamps) // 10), a ceiling fixed from the length of the whole
   timestamp sequence; the error carries the count and the ticks processed. *)
C8_CeilingOverWholeSequence ==
    (mode = "futures" /\ pc \in {"loop", "scout", "done", "aborted"})
      => /\ pc = "aborted" <=> error_count > Max(10, Len(timestamps) \div 10)
         /\ pc = "aborted"
               => /\ caller.outcome = "RuntimeError"
                  /\ caller.error_count = error_count
                  /\ caller.processed = Processed

(* an abort under a ceiling that lies above the floor of 10 *)
C8_Witness ==
    /\ pc = "aborted"
    /\ Len(timestamps) \div 10 > 10
    /\ error_count = Len(timestamps) \div 10 + 1

(* C9: when the run ends early, by abort or by an interrupt between ticks, the
   equity points and trades of the completed ticks reach the caller. *)
C9_PartialResultsDelivered ==
    (mode = "futures" /\ pc \in {"aborted", "interrupted"})
      => /\ "summary" \in DOMAIN caller
         /\ caller.summary.equity_curve = equity_curve
         /\ caller.summary.trades = trades

(* C10: a month bucket whose download failed part-way is neither put in the
   memory cache nor written to the disk cache nor returned. *)
C10_PartialBucketNotCached ==
    (mode = "loader" /\ last.op = "get_klines")
      => \A j \in DOMAIN last.log :
            last.log[j].failed
              => /\ last.log[j].key \notin DOMAIN memory_cache
                 /\ last.log[j].key \notin DOMAIN disk_cache
                 /\ last.log[j].klines = <<>>

(* the call before the last one had the same arguments *)
SameCallTwice ==
    /\ mode = "loader" /\ last.op = "get_klines"
    /\ last.prev.op = "get_klines"
    /\ last.prev.symbol = last.symbol /\ last.prev.interval = last.interval
    /\ last.prev.start_ms = last.start_ms /\ last.prev.end_ms = last.end_ms

(* C11: get_klines called twice with the same (symbol, interval, start, end)
   returns the same bars both times, and the second call sends no request to
   the upstream for any month of the range. *)
C11_FetchIdempotent ==
    SameCallTwice
      => /\ last.result = last.prev.result
         /\ requests = last.before.reqs
         /\ \A j \in DOMAIN last.log : last.log[j].tier # "network"

(* the first call downloaded bars, the second returned them again *)
C11_Witness ==
    /\ SameCallTwice
    /\ last.result # <<>>
    /\ requests > 0
    /\ Len(last.log) > 1

(* C12: in the main loop the callback is entered once per timestamp, in
   ascending order, with current_time equal to that timestamp: it is entered
   only from the loop head at index i with the clock set to timestamps[i], the
   clock and the index stay put while it runs, the index moves on by one when
   it ends, and the run is done only past the last index. *)
C12_OncePerTimestamp ==
    [][/\ (pc # "scout" /\ pc' = "scout")
            => /\ pc = "loop"
               /\ i \in 1 .. Len(timestamps)
               /\ i' = i /\ timestamps' = timestamps
               /\ current_time' = timestamps[i]
       /\ (pc = "scout" /\ pc' = "scout")
            => i' = i /\ current_time' = current_time
       /\ (pc = "scout" /\ pc' # "scout")
            => \/ pc' = "aborted" /\ i' = i
               \/ pc' = "loop" /\ i' = i + 1
       /\ (pc = "start" /\ pc' = "loop") => i' = 1
       /\ pc' = "done" => i' = Len(timestamps') + 1
       /\ \A j \in 1 .. (Len(timestamps') - 1) : timestamps'[j] < timestamps'[j + 1]
      ]_vars

(* the bars of symbol / interval the loader holds in its cache *)
StoredBars(symbol, interval) ==
    UNION {Range(memory_cache[k]) :
             k \in {c \in DOMAIN memory_cache : c[1] = symbol /\ c[2] = interval}}

(* the completed stored bars of the query's window: those that closed before t
   and open no earlier than limit intervals before the start of the interval
   containing t *)
WindowBars(symbol, interval, limit, t) ==
    LET ms == interval_to_ms(interval)
    IN  {b \in StoredBars(symbol, interval) :
            b.close_time < t /\ b.open_time >= (t \div ms) * ms - limit * ms}

(* the n most recent bars of a set of bars *)
MostRecent(bars, n) ==
    {b \in bars : Cardinality({c \in bars : c.open_time > b.open_time}) < n}

(* C13: futures_klines returns at most limit rows, exactly the limit most
   recent stored bars that closed before current_time (all of the window's when
   there are fewer), in ascending open_time order, the newest being the bar
   that ends at the interval boundary at or before current_time when stored. *)
C13_RecentBarsExact ==
    (mode = "klines" /\ last.op = "futures_klines" /\ ~last.raised)
      => LET rows == last.result
             ms == interval_to_ms(last.interval)
             boundary == (last.at \div ms) * ms
             expected == MostRecent(WindowBars(last.symbol, last.interval, last.limit,
                                               last.at), last.limit)
         IN  /\ Len(rows) <= last.limit
             /\ \A j \in 1 .. (Len(rows) - 1) : rows[j][1] < rows[j + 1][1]
             /\ Len(rows) = Cardinality(expected)
             /\ {rows[j] : j \in DOMAIN rows} = {RawKline(b) : b \in expected}
             /\ (last.limit > 0 /\ \E b \in StoredBars(last.symbol, last.interval) :
                                       b.open_time = boundary - ms)
                  => /\ rows # <<>>
                     /\ rows[Len(rows)][1] = boundary - ms

(* C14: with current_time set, futures_klines does not raise because data is
   missing: when fewer than limit bars are stored, or a month bucket could not
   be downloaded, it returns the bars it has (possibly none), each a completed
   bar of the upstream, as a normal result. *)
C14_NeverRaisesOnMissingData ==
    (mode = "klines" /\ last.op = "futures_klines" /\ last.at # NoTime)
      => /\ ~last.raised
         /\ \A j \in DOMAIN last.result :
               \E b \in CompletedBefore(last.symbol, last.interval, last.at) :
                  last.result[j] = RawKline(b)

(* a query with the clock set during which a bucket download failed and that
   returned fewer rows than asked for *)
C14_Witness ==
    /\ mode = "klines" /\ last.op = "futures_klines" /\ last.at # NoTime
    /\ \E j \in DOMAIN last.log : last.log[j].failed
    /\ ~last.raised
    /\ Len(last.result) < last.limit

(* a query with the clock set that found no bar at all *)
C14_WitnessNone ==
    /\ mode = "klines" /\ last.op = "futures_klines" /\ last.at # NoTime
    /\ ~last.raised /\ last.limit > 0 /\ last.result = <<>>

(* C15: the positions map holds at most one Position per (symbol, direction),
   every stored Position has quantity > 0, and a position whose quantity
   reaches zero through a close is removed by that close. *)
C15_PositionsWellFormed ==
    mode = "futures"
      => /\ \A key \in DOMAIN positions :
               /\ key = position_key(positions[key].symbol, positions[key].side)
               /\ RLt(R(0), positions[key].quantity)
         /\ (last.op = "trade" /\ last.action = "CLOSE" /\ IsOrder(last.result))
               => LET key == position_key(last.symbol, last.side)
                  IN  RLe(last.before.positions[key].quantity, last.quantity)
                        => key \notin DOMAIN positions

(* C16: an open that merges into an existing position of the same direction
   (quantity Q, entry price e, margin M) with quantity q at price p leaves that
   position with quantity Q + q, entry price (e*Q + p*q)/(Q + q) and margin
   M + p*q/leverage, and creates no second position for the key. *)
C16_MergeOnOpen ==
    (/\ mode = "futures" /\ last.op = "trade" /\ last.action = "OPEN"
     /\ last.result # None
     /\ position_key(last.symbol, last.side) \in DOMAIN last.before.positions)
      => LET key == position_key(last.symbol, last.side)
             old == last.before.positions[key]
             q == last.quantity
             p == last.price
             total == RAdd(old.quantity, q)
         IN  /\ IsOrder(last.result)
             /\ DOMAIN positions = DOMAIN last.before.positions
             /\ positions[key].quantity = total
             /\ RMul(positions[key].entry_price, total)
                   = RAdd(RMul(old.entry_price, old.quantity), RMul(p, q))
             /\ positions[key].total_margin
                   = RAdd(old.total_margin,
                          RDiv(RMul(p, q), R(last.before.leverage)))
             /\ \A k \in DOMAIN positions \ {key} :
                   positions[k] = last.before.positions[k]

(* the ledger after the last exchange operation: one OPEN trade with pnl 0
   appended by a successful open, one CLOSE trade with the realized pnl and
   the clamped quantity by a successful close, nothing otherwise *)
C17_LastTradeRecorded ==
    (mode = "futures" /\ last.op = "trade")
      => LET old == last.before.trades
             key == position_key(last.symbol, last.side)
         IN  IF ~IsOrder(last.result) THEN trades = old
             ELSE /\ Len(trades) = Len(old) + 1
                  /\ SubSeq(trades, 1, Len(old)) = old
                  /\ LET t == trades[Len(trades)]
                     IN  /\ t.action = last.action /\ t.symbol = last.symbol
                         /\ t.side = last.side /\ t.price = last.price
                         /\ t.timestamp = last.at
                         /\ IF last.action = "OPEN"
                            THEN t.pnl = R(0) /\ t.quantity = last.quantity
                            ELSE LET pos == last.before.positions[key]
                                     held == pos.quantity
                                     qty == IF RLt(held, last.quantity) THEN held
                                            ELSE last.quantity
                                 IN  /\ t.quantity = qty
                                     /\ t.pnl = IF last.side = "LONG"
                                                THEN RMul(RSub(last.price, pos.entry_price), qty)
                                                ELSE RMul(RSub(pos.entry_price, last.price), qty)

(* C17: the trade ledger is append-only. Every step keeps the existing entries
   and appends at most one; a successful open appends one OPEN trade with pnl
   0, a successful close one CLOSE trade with its realized pnl and the clamped
   quantity, a rejected operation nothing; timestamps are non-decreasing. *)
C17_LedgerAppendOnly ==
    [][/\ Len(trades') \in {Len(trades), Len(trades) + 1}
       /\ SubSeq(trades', 1, Len(trades)) = trades
       /\ C17_LastTradeRecorded'
       /\ \A j \in 1 .. (Len(trades') - 1) :
             trades'[j].timestamp <= trades'[j + 1].timestamp]_vars

(* sum of total_margin over the positions stored under the keys ks *)
RECURSIVE margin_total(_, _)
margin_total(ps, ks) ==
    IF ks = {} THEN R(0)
    ELSE LET k == CHOOSE x \in ks : TRUE
         IN  RAdd(ps[k].total_margin, margin_total(ps, ks \ {k}))

(* sum of the realized pnl of the CLOSE trades of a ledger *)
RECURSIVE realized_total(_)
realized_total(ts) ==
    IF ts = <<>> THEN R(0)
    ELSE RAdd(IF ts[1].action = "CLOSE" THEN ts[1].pnl ELSE R(0),
              realized_total(Tail(ts)))

(* the run of the scenario: initial balance 1000, leverage 2, the first trade
   an open of 1 LONG at 100 *)
ScenarioA ==
    /\ mode = "futures" /\ run_args.initial_balance = 1000 /\ leverage = 2
    /\ trades # <<>>
    /\ trades[1].action = "OPEN" /\ trades[1].side = "LONG"
    /\ trades[1].quantity = R(1) /\ trades[1].price = R(100)

(* C18: over any sequence of opens and closes, balance plus the total_margin
   of the open positions equals initial_balance plus the realized pnl of the
   CLOSE trades; with balance 1000 and leverage 2, opening 1 LONG at 100 leaves
   balance 950, and closing the full quantity at 110 leaves 1010 and no
   position. *)
C18_Conservation ==
    mode = "futures"
      => /\ RAdd(balance, margin_total(positions, DOMAIN positions))
               = RAdd(R(run_args.initial_balance), realized_total(trades))
         /\ (ScenarioA /\ Len(trades) = 1) => balance = R(950)
         /\ (/\ ScenarioA /\ Len(trades) = 2
             /\ trades[2].action = "CLOSE" /\ trades[2].side = "LONG"
             /\ trades[2].price = R(110) /\ trades[2].quantity = R(1))
               => balance = R(1010) /\ positions = EmptyMap

(* the scenario has run to its end: opened at 100, closed in full at 110 *)
C18_Witness ==
    /\ ScenarioA /\ Len(trades) = 2
    /\ trades[2].action = "CLOSE" /\ trades[2].price = R(110)
    /\ trades[2].quantity = R(1) /\ trades[2].pnl = R(10)
    /\ balance = R(1010)

(* a partial close at a profit with the rest of the position still open *)
C18_WitnessPartial ==
    /\ mode = "futures" /\ trades # <<>>
    /\ trades[Len(trades)].action = "CLOSE" /\ ~RIsZero(trades[Len(trades)].pnl)
    /\ positions # EmptyMap

(* the upstream 1m bars a mark price at time t is read from: completed before
   t, opened no earlier than one minute before the minute containing t *)
MarkBars(symbol, t) ==
    {b \in CompletedBefore(symbol, "1m", t) :
        b.open_time >= (t \div MinuteMs) * MinuteMs - MinuteMs}

(* unrealized pnl of a position at the close of bar b *)
PnlAt(pos, b) ==
    IF pos.side = "LONG" THEN RMul(RSub(b.close, pos.entry_price), pos.quantity)
    ELSE RMul(RSub(pos.entry_price, b.close), pos.quantity)

(* sum over the keys ks of the unrealized pnl of the positions at time t *)
RECURSIVE unrealized_total(_, _, _)
unrealized_total(ps, ks, t) ==
    IF ks = {} THEN R(0)
    ELSE LET k == CHOOSE x \in ks : TRUE
             b == CHOOSE x \in MarkBars(ps[k].symbol, t) : TRUE
         IN  RAdd(PnlAt(ps[k], b), unrealized_total(ps, ks \ {k}, t))

(* the callback of a tick has just returned and its equity point is the last
   of the curve *)
PointAppended ==
    mode = "futures" /\ pc = "loop" /\ last.op = "scout" /\ last.result = "returned"

(* C19: every appended EquityPoint has equity = balance + the unrealized pnl,
   at the mark price, of all positions open at that moment (every open position
   contributes), balance = the exchange balance, and positions = the number of
   open positions. *)
C19_EquityPoint ==
    PointAppended
      => LET point == equity_curve[Len(equity_curve)]
         IN  /\ point.balance = balance
             /\ point.positions = Cardinality(DOMAIN positions)
             /\ point.timestamp = current_time
             /\ \A k \in DOMAIN positions :
                   MarkBars(positions[k].symbol, current_time) # {}
             /\ point.equity =
                   RAdd(balance,
                        unrealized_total(positions, DOMAIN positions, current_time))

(* C20: _generate_timestamps returns a sequence whose first element is the
   start, whose consecutive elements differ by exactly the step (so it is
   strictly increasing), whose last element is <= end and > end - step, and
   whose length is floor((end - start) / step) + 1 whenever start <= end;
   start and end being the instants of start_date and end_date. *)
C20_GeneratedTimestamps ==
    (mode = "futures" /\ pc # "start")
      => LET start == timestamp(run_args.start_ms)
             end == timestamp(run_args.end_ms)
             step == engine_interval_to_ms(run_args.interval)
             n == Len(timestamps)
         IN  start <= end
               => /\ n = (end - start) \div step + 1
                  /\ timestamps[1] = start
                  /\ \A j \in 1 .. (n - 1) : timestamps[j + 1] - timestamps[j] = step
                  /\ timestamps[n] <= end
                  /\ timestamps[n] > end - step

(* C21: a range whose end lies before its start gives an empty timestamp
   sequence and is a configuration error: run raises ValueError before warm-up
   (the clock is never set, nothing is fetched), before any tick callback and
   before any equity point; an empty sequence never leads anywhere else. *)
C21_EmptyRangeRaises ==
    (mode = "futures" /\ pc # "start"
     /\ (run_args.end_ms < run_args.start_ms \/ timestamps = <<>>))
      => /\ timestamps = <<>>
         /\ pc = "failed"
         /\ caller = [outcome |-> "ValueError"]
         /\ current_time = NoTime
         /\ requests = 0 /\ memory_cache = EmptyMap /\ disk_cache = EmptyMap
         /\ i = 0 /\ tick_start = None /\ last = NoCall
         /\ equity_curve = <<>> /\ trades = <<>>

(* a run over an empty range of a strategy that declares symbols has raised *)
C21_Witness ==
    /\ mode = "futures" /\ pc = "failed"
    /\ run_args.end_ms < run_args.start_ms
    /\ run_args.symbols # <<>>


(* the bucket of the warm-up window's last month for a symbol *)
WarmupKey(symbol) == cache_key(symbol, "5m", MonthOf(0))

(* C22: a run that got past the empty-range check is in its loop, never failed
   by warm-up; for a strategy that declares symbols, the state the first tick
   callback starts from has current_time at the first timestamp and one
   futures_klines call per declared symbol, in order, behind it; a symbol
   whose call raised leaves the calls for the other symbols answered and
   their buckets cached *)
C22_WarmupBeforeLoop ==
    /\ (mode = "futures" /\ pc # "start" /\ timestamps # <<>>) => pc # "failed"
    /\ (/\ mode = "futures" /\ run_args.symbols # <<>>
        /\ ((pc = "loop" /\ i = 1) \/ (pc = "scout" /\ i = 1 /\ ops = 0)))
          => /\ last.op = "warmup"
             /\ last.at = timestamps[1]
             /\ (pc = "loop" => current_time = timestamps[1] /\ tick_start = None)
             /\ equity_curve = <<>>
             /\ [j \in DOMAIN last.log |-> last.log[j].symbol] = run_args.symbols
             /\ \A j \in DOMAIN last.log :
                   /\ last.log[j].raised <=> last.log[j].symbol \in run_args.warm_crash
                   /\ ~last.log[j].raised
                        => WarmupKey(last.log[j].symbol) \in DOMAIN memory_cache

(* the first symbol's call raised, the second symbol was warmed all the same,
   and the first tick callback is running *)
C22_Witness ==
    /\ mode = "futures" /\ pc = "scout" /\ i = 1
    /\ last.op = "warmup" /\ Len(last.log) = 2
    /\ last.log[1].raised /\ ~last.log[2].raised
    /\ WarmupKey(last.log[2].symbol) \in DOMAIN memory_cache
    /\ WarmupKey(last.log[1].symbol) \notin DOMAIN memory_cache

(* how a run has ended: COMPLETED, or ended early by the failure ceiling, the
   empty-range check, an interrupt or an exception of the summary *)
Completed == pc = "done"
Aborted == pc \in {"aborted", "failed", "interrupted", "crashed"}

(* C23: a run ends completed or ended early and then stays as it is: no
   callback is entered and no equity point is appended after the end; the loop
   index only moves forward, one timestamp per callback, so no position of the
   list is processed twice, and no timestamp stands at two positions of the
   list; the run is completed only when every position has been processed,
   each with an equity point or a counted failure. *)
C23_RunOutcomes ==
    [][mode = "futures" =>
         /\ (Completed \/ Aborted) => UNCHANGED vars
         /\ i' >= i
         /\ (pc' = "scout" /\ pc # "scout") => (pc = "loop" /\ i' = i)
         /\ (pc = "scout" /\ pc' = "loop") => i' = i + 1
         /\ Completed' => /\ i' = Len(timestamps') + 1
                          /\ Len(equity_curve') + error_count' = Len(timestamps')
         /\ Aborted' => equity_curve' = equity_curve
         /\ \A j, k \in DOMAIN timestamps' : j < k => timestamps'[j] # timestamps'[k]
      ]_vars

(* the exchange operations, as the history variable names them *)
ExchangeOps == {"futures_klines", "get_historical_klines", "trade", "buy_alt", "sell_alt"}

(* C24: within a run current_time changes only when the run starts (warm-up)
   and when a tick begins; once set it never goes back, and each tick after
   the first begins at a later time than the one before; a step in which an
   exchange operation or the equity computation runs leaves it as it was. *)
C24_ClockOwnedByDriver ==
    [][/\ (mode = "futures" /\ current_time' # current_time)
            => /\ pc = "start" \/ (pc = "loop" /\ pc' = "scout")
               /\ current_time # NoTime => current_time' > current_time
       /\ (mode = "futures" /\ pc = "loop" /\ pc' = "scout" /\ i > 1)
            => current_time' > current_time
       /\ (last' # last /\ last'.op \in ExchangeOps \cup {"scout"})
            => current_time' = current_time
      ]_vars

(* the loop of a second run is exhausted: what the run leaves is final *)
SecondRunOver ==
    /\ mode = "futures" /\ pc = "loop" /\ i > Len(timestamps)
    /\ "previous" \in DOMAIN caller
    /\ leverage = caller.previous.leverage

(* C25: a second run with the same bars, range, step, initial balance,
   leverage and deterministic strategy leaves the equity points and the trade
   ledger the first run left, on a new engine and on the same engine alike. *)
C25_ReplayDeterminism ==
    SecondRunOver
      => /\ equity_curve = caller.previous.equity_curve
         /\ trades = caller.previous.trades

(* the same, for second runs on a new engine only *)
ReplayOnNewEngine ==
    (SecondRunOver /\ caller.fresh)
      => /\ equity_curve = caller.previous.equity_curve
         /\ trades = caller.previous.trades

(* a second run on a new engine that recorded two trades and an equity point *)
ReplayOnNewEngineReached ==
    SecondRunOver /\ caller.fresh /\ Len(trades) = 2 /\ equity_curve # <<>>

(* C26: for every month bucket a get_klines call resolves: it comes from the
   memory cache exactly when the memory cache held it before the call, from
   the disk cache exactly when only the disk cache held it, from the network
   exactly when neither held it and a client is set; requests are made only
   for buckets that come from the network; when the call returns, a bucket
   from the network is in the disk cache as returned, and a bucket from disk
   or network is in the memory cache as returned. *)
C26_CacheTierOrder ==
    [][(mode = "loader" /\ ops' # ops)
        => /\ last'.op = "get_klines"
           /\ last'.before = Loader
           /\ \A j \in DOMAIN last'.log :
                 LET e == last'.log[j]
                     inMem == e.key \in DOMAIN memory_cache
                     inDisk == e.key \in DOMAIN disk_cache
                 IN  /\ e.tier = "memory" <=> inMem
                     /\ e.tier = "disk" <=> (~inMem /\ inDisk)
                     /\ e.tier = "network" <=> (~inMem /\ ~inDisk /\ run_args.client)
                     /\ e.tier = "none" <=> (~inMem /\ ~inDisk /\ ~run_args.client)
                     /\ e.tier = "memory" => e.klines = memory_cache[e.key]
                     /\ e.tier = "disk" => e.klines = disk_cache[e.key]
                     /\ e.tier = "network"
                          => e.key \in DOMAIN disk_cache' /\ disk_cache'[e.key] = e.klines
                     /\ e.tier \in {"disk", "network"}
                          => /\ e.key \in DOMAIN memory_cache'
                             /\ memory_cache'[e.key] = e.klines
           /\ (requests' # requests)
                 <=> \E j \in DOMAIN last'.log : last'.log[j].tier = "network"
      ]_vars

(* one call resolved a bucket from disk and the next bucket from the network *)
C26_Witness ==
    /\ mode = "loader" /\ last.op = "get_klines"
    /\ \E j, k \in DOMAIN last.log :
          /\ last.log[j].tier = "disk" /\ last.log[k].tier = "network"
          /\ last.log[k].klines # <<>>

(* a call resolved a bucket from the memory cache *)
C26_WitnessMemory ==
    /\ mode = "loader" /\ last.op = "get_klines"
    /\ \E j \in DOMAIN last.log : last.log[j].tier = "memory" /\ last.log[j].klines # <<>>

(* C27: the list get_klines returned is strictly ascending in open_time (so no
   open_time appears twice) and holds only bars with
   start_ms <= open_time <= end_ms. *)
C27_AscendingInRange ==
    (mode = "loader" /\ last.op = "get_klines")
      => /\ \A j \in 1 .. (Len(last.result) - 1) :
               last.result[j].open_time < last.result[j + 1].open_time
         /\ \A j \in DOMAIN last.result :
               /\ last.start_ms <= last.result[j].open_time
               /\ last.result[j].open_time <= last.end_ms

(* the same for the calls whose range lies within one month *)
AscendingWithinMonth ==
    (mode = "loader" /\ last.op = "get_klines" /\ Len(last.log) = 1)
      => /\ \A j \in 1 .. (Len(last.result) - 1) :
               last.result[j].open_time < last.result[j + 1].open_time
         /\ \A j \in DOMAIN last.result :
               /\ last.start_ms <= last.result[j].open_time
               /\ last.result[j].open_time <= last.end_ms

(* the running peak at point j and the drawdown there, in percent *)
PeakAt(curve, j) ==
    CHOOSE p \in {curve[k].equity : k \in 1 .. j} :
        \A k \in 1 .. j : RLe(curve[k].equity, p)
DrawdownAt(curve, j) ==
    RMul(RDiv(RSub(PeakAt(curve, j), curve[j].equity), PeakAt(curve, j)), R(100))
NonDecreasing(curve) ==
    \A j \in 1 .. (Len(curve) - 1) : RLe(curve[j].equity, curve[j + 1].equity)

(* C28: _calculate_max_drawdown returns a number: 0 for an empty curve and for
   a non-decreasing one, and the greatest of the drawdowns (peak_i -
   equity_i) / peak_i * 100 whenever every one of them is defined; the equity
   curve is as it was before the call. *)
C28_MaxDrawdown ==
    (mode = "summary" /\ last.op = "max_drawdown")
      => /\ ~IsRaised(last.result)
         /\ equity_curve = last.before
         /\ equity_curve = <<>> => last.result = R(0)
         /\ NonDecreasing(equity_curve) => last.result = R(0)
         /\ (equity_curve # <<>>
             /\ \A j \in DOMAIN equity_curve : ~RIsZero(PeakAt(equity_curve, j)))
               => /\ \E j \in DOMAIN equity_curve :
                        last.result = DrawdownAt(equity_curve, j)
                  /\ \A j \in DOMAIN equity_curve :
                        RLe(DrawdownAt(equity_curve, j), last.result)

(* the same for the curves whose running peak is never zero *)
MaxDrawdownOverNonZeroPeaks ==
    (/\ mode = "summary" /\ last.op = "max_drawdown"
     /\ \A j \in DOMAIN equity_curve : ~RIsZero(PeakAt(equity_curve, j)))
      => /\ ~IsRaised(last.result)
         /\ equity_curve = last.before
         /\ equity_curve = <<>> => last.result = R(0)
         /\ NonDecreasing(equity_curve) => last.result = R(0)
         /\ equity_curve # <<>>
               => /\ \E j \in DOMAIN equity_curve :
                        last.result = DrawdownAt(equity_curve, j)
                  /\ \A j \in DOMAIN equity_curve :
                        RLe(DrawdownAt(equity_curve, j), last.result)

(* a run whose first equity point is zero (the whole balance is margin) ended
   with ZeroDivisionError out of the summary *)
ZeroPeakRun ==
    /\ mode = "futures" /\ pc = "crashed"
    /\ caller = [outcome |-> "ZeroDivisionError"]
    /\ equity_curve # <<>> /\ RIsZero(equity_curve[1].equity)

(* the CLOSE trades of a ledger, its winners and losers, as sets of positions *)
CloseIdx(ledger) == {j \in DOMAIN ledger : ledger[j].action = "CLOSE"}
WinIdx(ledger, S) == {j \in S : RLt(R(0), ledger[j].pnl)}
LossIdx(ledger, S) == {j \in S : RLt(ledger[j].pnl, R(0))}

RECURSIVE SumOver(_, _)
SumOver(ledger, S) ==
    IF S = {} THEN R(0)
    ELSE LET j == CHOOSE k \in S : TRUE
         IN  RAdd(ledger[j].pnl, SumOver(ledger, S \ {j}))

MeanOver(ledger, S) ==
    IF S = {} THEN R(0) ELSE RDiv(SumOver(ledger, S), R(Cardinality(S)))

(* total_profit / total_loss over the positions S, infinite without a loss *)
ProfitFactorOver(ledger, S) ==
    IF LossIdx(ledger, S) = {} THEN Infinity
    ELSE RDiv(SumOver(ledger, WinIdx(ledger, S)),
              RSub(R(0), SumOver(ledger, LossIdx(ledger, S))))

(* (final_equity - initial_balance) / initial_balance, in percent *)
TotalReturn(curve, initial_balance) ==
    LET final_equity == IF curve = <<>> THEN R(initial_balance)
                        ELSE curve[Len(curve)].equity
    IN  RMul(RDiv(RSub(final_equity, R(initial_balance)), R(initial_balance)), R(100))

(* win rate and averages of a report over the positions S of a ledger *)
RatesOver(stats, ledger, S) ==
    /\ stats.wins = Cardinality(WinIdx(ledger, S))
    /\ stats.losses = Cardinality(LossIdx(ledger, S))
    /\ stats.win_rate = Rat(100 * Cardinality(WinIdx(ledger, S)), Cardinality(S))

(* C29: the summary reports total_return = (final_equity - initial_balance) /
   initial_balance and, over the CLOSE trades only, the win rate, the mean pnl
   of the winning and of the losing trades, and profit_factor = total_profit /
   total_loss, infinite when total_loss is zero; so does the trade analysis of
   the spot runner over its round trips. *)
C29_SummaryStatistics ==
    /\ (mode = "summary" /\ last.op = "print_summary")
          => /\ last.result.total_return
                  = TotalReturn(equity_curve, run_args.initial_balance)
             /\ last.result.stats.closed = Cardinality(CloseIdx(trades))
             /\ CloseIdx(trades) # {}
                  => /\ RatesOver(last.result.stats, trades, CloseIdx(trades))
                     /\ last.result.stats.avg_win
                          = MeanOver(trades, WinIdx(trades, CloseIdx(trades)))
                     /\ last.result.stats.avg_loss
                          = MeanOver(trades, LossIdx(trades, CloseIdx(trades)))
                     /\ "profit_factor" \in DOMAIN last.result.stats
                     /\ last.result.stats.profit_factor
                          = ProfitFactorOver(trades, CloseIdx(trades))
    /\ (mode = "report" /\ last.op = "trade_analysis" /\ trades # <<>>)
          => /\ RatesOver(last.result, trades, DOMAIN trades)
             /\ last.result.avg_profit = MeanOver(trades, WinIdx(trades, DOMAIN trades))
             /\ last.result.avg_loss = MeanOver(trades, LossIdx(trades, DOMAIN trades))
             /\ last.result.profit_factor = ProfitFactorOver(trades, DOMAIN trades)

(* C29 as the two reports stand: _print_summary reports the total return and,
   over the CLOSE trades only, count, win rate and the mean pnl of winners and
   of losers, and no profit factor; the trade analysis of the spot runner
   reports, over the round trips it recorded, win rate, mean win, the mean of
   the absolute losses, and the profit factor, infinite without a loss. *)
C29_SummaryPerReport ==
    /\ (mode = "summary" /\ last.op = "print_summary")
          => /\ last.result.total_return
                  = TotalReturn(equity_curve, run_args.initial_balance)
             /\ last.result.stats.closed = Cardinality(CloseIdx(trades))
             /\ "profit_factor" \notin DOMAIN last.result.stats
             /\ CloseIdx(trades) # {}
                  => /\ RatesOver(last.result.stats, trades, CloseIdx(trades))
                     /\ last.result.stats.avg_win
                          = MeanOver(trades, WinIdx(trades, CloseIdx(trades)))
                     /\ last.result.stats.avg_loss
                          = MeanOver(trades, LossIdx(trades, CloseIdx(trades)))
    /\ (mode = "report" /\ last.op = "trade_analysis" /\ trades # <<>>)
          => /\ RatesOver(last.result, trades, DOMAIN trades)
             /\ last.result.avg_profit = MeanOver(trades, WinIdx(trades, DOMAIN trades))
             /\ last.result.avg_loss
                  = RSub(R(0), MeanOver(trades, LossIdx(trades, DOMAIN trades)))
             /\ last.result.profit_factor = ProfitFactorOver(trades, DOMAIN trades)

(* a summary of a ledger with opens, a winning and a losing close *)
C29_Witness ==
    /\ mode = "summary" /\ last.op = "print_summary"
    /\ last.result.stats.closed > 0 /\ last.result.stats.closed < Len(trades)
    /\ last.result.stats.wins > 0 /\ last.result.stats.losses > 0
    /\ equity_curve # <<>>

(* a trade analysis without a loss, and one with a finite profit factor *)
C29_WitnessInfinite ==
    /\ mode = "report" /\ last.op = "trade_analysis" /\ trades # <<>>
    /\ last.result.profit_factor = Infinity
C29_WitnessFinite ==
    /\ mode = "report" /\ last.op = "trade_analysis" /\ trades # <<>>
    /\ last.result.profit_factor # Infinity /\ last.result.wins > 0

(* the balance of a coin, zero when the coin is not held *)
Held(bals, coin) == IF coin \in DOMAIN bals THEN bals[coin] ELSE Amt(R(0), 0)

(* C30: after a successful buy_alt the paying asset (target) is at 0 and the
   bought asset (origin) has grown by (B / p) * (1 - fee), B being the paying
   balance before and p the price; after a successful sell_alt the sold asset
   (origin) is at 0 and the target asset has grown by B * p * (1 - fee); every
   other asset is as before, and no balance is ever negative. *)
C30_SpotWholeBalance ==
    mode = "spot"
      => /\ \A c \in DOMAIN balances : RLe(R(0), balances[c].q)
         /\ (last.op = "buy_alt" /\ last.result # None)
              => /\ RLt(R(0), Held(last.before, last.target).q)
                 /\ RIsZero(Held(balances, last.target).q)
                 /\ Held(balances, last.origin)
                      = AmtAdd(Held(last.before, last.origin),
                               AmtLessFee(AmtDivRat(Held(last.before, last.target),
                                                    last.price)))
                 /\ \A c \in Coins \ {last.origin, last.target} :
                       Held(balances, c) = Held(last.before, c)
         /\ (last.op = "sell_alt" /\ last.result # None)
              => /\ RLt(R(0), Held(last.before, last.origin).q)
                 /\ RIsZero(Held(balances, last.origin).q)
                 /\ Held(balances, last.target)
                      = AmtAdd(Held(last.before, last.target),
                               AmtLessFee(AmtMulRat(Held(last.before, last.origin),
                                                    last.price)))
                 /\ \A c \in Coins \ {last.origin, last.target} :
                       Held(balances, c) = Held(last.before, c)

(* a purchase followed by the sale of what was bought: the bridge balance is
   back, less two fees *)
C30_Witness ==
    /\ mode = "spot" /\ last.op = "sell_alt" /\ last.result # None
    /\ last.target = bridge_symbol
    /\ Held(balances, bridge_symbol).k = 2
    /\ RLt(R(0), Held(balances, bridge_symbol).q)

(* a successful purchase with the bridge coin *)
C30_WitnessBuy ==
    /\ mode = "spot" /\ last.op = "buy_alt" /\ last.result # None
    /\ last.target = bridge_symbol
    /\ RLt(R(0), Held(balances, last.origin).q)

(* the close orders a risk pass over the positions seen has to place: one for
   every position at or beyond the stop-loss or the take-profit threshold *)
DueAt(seen, j) ==
    /\ RLt(R(0), seen[j].entry_price)
    /\ LET gain == IF seen[j].side = "LONG"
                   THEN RSub(seen[j].mark_price, seen[j].entry_price)
                   ELSE RSub(seen[j].entry_price, seen[j].mark_price)
       IN  \/ RLe(RMul(gain, R(100)), RMul(R(0 - stop_loss_pct), seen[j].entry_price))
           \/ RLe(RMul(R(take_profit_pct), seen[j].entry_price), RMul(gain, R(100)))

RECURSIVE DueCloses(_, _)
DueCloses(seen, j) ==
    IF j > Len(seen) THEN <<>>
    ELSE (IF DueAt(seen, j)
          THEN <<[side |-> seen[j].side, action |-> "CLOSE", symbol |-> seen[j].symbol,
                  quantity |-> seen[j].quantity]>>
          ELSE <<>>) \o DueCloses(seen, j + 1)

(* C31: a strategy tick decides the same on the simulator as on the live
   manager: whatever the manager, the tick reads the positions it is given
   without an exception, and closes exactly the positions seen whose profit is
   at or beyond the stop-loss or the take-profit threshold. *)
C31_AdaptersInterchangeable ==
    last.op = "scout" =>
        /\ last.raised = "none"
        /\ last.orders = DueCloses(last.seen, 1)

(* on the live manager the tick decides as stated *)
LiveTickDecides ==
    (last.op = "scout" /\ last.adapter = "live") =>
        /\ last.raised = "none"
        /\ last.orders = DueCloses(last.seen, 1)

(* a live tick that closed a position *)
LiveTickClosed ==
    last.op = "scout" /\ last.adapter = "live" /\ last.orders # <<>>

(* a simulated tick that saw a position beyond its stop-loss and placed no order *)
BacktestTickSkipsStop ==
    /\ last.op = "scout" /\ last.adapter = "backtest"
    /\ DueCloses(last.seen, 1) # <<>>
    /\ last.orders = <<>>
    /\ last.raised = "AttributeError"

(* every item a worker has put is in the cache with its price *)
AllPutCommitted ==
    \A item \in prefetch.put_log :
        /\ item.key \in DOMAIN prefetch.cache
        /\ prefetch.cache[item.key] = item.price

(* C32: once the shutdown sequence of warm_cache (queue join, stop event,
   sentinel, writer join, cache close) has finished, every item a worker put on
   the write queue has been written and committed to the cache. *)
C32_PrefetchLosesNoWrite ==
    (mode = "prefetch" /\ prefetch.main = "finished") => AllPutCommitted

(* the same, for the shutdowns in which the writer had ended when it was joined *)
NoWriteLostUnlessJoinTimedOut ==
    (mode = "prefetch" /\ prefetch.main = "finished" /\ ~prefetch.join_timed_out)
        => AllPutCommitted

(* a shutdown that finished after the writer ended, with items put *)
JoinedShutdown ==
    /\ mode = "prefetch" /\ prefetch.main = "finished" /\ ~prefetch.join_timed_out
    /\ prefetch.put_log # {}

(* the threads that are reading or writing the cache: a worker inside its
   chunk-already-cached check, the writer inside its batch write and commit *)
CacheUsers ==
    {w \in DOMAIN prefetch.workers : prefetch.workers[w].pc = "check"}
    \cup (IF prefetch.writer \in WriterLocked THEN {"writer"} ELSE {})

(* C33: the write queue never holds more than its maximum (1000 in the source,
   QueueMax here); the writer's batch is committed when it reaches batch_size
   (5000, BatchSize here), so it is below that size whenever the writer goes on
   to the next item, and it is empty once the writer has gone on after finding
   the queue empty; a thread that reads or writes the cache holds cache_lock,
   so at most one thread does so at a time. *)
C33_QueueBatchAndLock ==
    mode = "prefetch" =>
        /\ Len(prefetch.queue) <= QueueMax
        /\ (prefetch.writer \in {"task_done", "loop", "get"}
               => Len(prefetch.batch) < BatchSize)
        /\ (prefetch.found = "empty" /\ prefetch.writer \in {"loop", "get"}
               => prefetch.batch = <<>>)
        /\ \A t \in CacheUsers : prefetch.lock = t
        /\ Cardinality(CacheUsers) <= 1

(* the queue is full with a worker still to put, and the writer is committing a
   full batch while a worker is about to ask for the lock *)
C33_Witness ==
    /\ mode = "prefetch"
    /\ prefetch.writer = "commit_locked"
    /\ Len(prefetch.batch) = BatchSize
    /\ Len(prefetch.queue) = QueueMax
    /\ \E w \in DOMAIN prefetch.workers : prefetch.workers[w].pc = "put"
    /\ \E w \in DOMAIN prefetch.workers :
          prefetch.workers[w].pc = "chunk" /\ prefetch.workers[w].chunk \in Chunks

(* the writer found the queue empty and committed what it held *)
C33_WitnessFlush ==
    /\ mode = "prefetch"
    /\ prefetch.found = "empty" /\ prefetch.writer = "flush_locked"

(* the three lock fields of a CrossSectionalState are all set *)
LockFieldsSet(state) ==
    /\ state.locked_coin # None
    /\ state.lock_entry_price # None
    /\ state.lock_entry_time # None

LockFieldsClear(state) ==
    /\ state.locked_coin = None
    /\ state.lock_entry_price = None
    /\ state.lock_entry_time = None

TriggerCountOf(state, symbol) ==
    IF symbol \in DOMAIN state.trigger_count THEN state.trigger_count[symbol] ELSE 0

(* C34: the cross-sectional strategy is a two-state machine. Its mode is
   always IDLE or TREND_LOCK; a tick takes it from IDLE to TREND_LOCK only for
   the coin whose trigger count that tick raised to PERSISTENCE_PERIODS or
   more; a tick takes it from TREND_LOCK to IDLE only when no coin was locked
   or when the last EXIT_PERSISTENCE verdicts of the collapse detection since
   the lock was entered were all collapse signals; a tick whose detection
   finds no collapse leaves the collapse count at 0; and after every step the
   three lock fields are all set in TREND_LOCK and all None in IDLE. *)
C34_TrendLockMachine ==
    [][(mode = "trend") =>
         /\ strategy'.state.mode \in {"IDLE", "TREND_LOCK"}
         /\ (strategy.state.mode = "IDLE" /\ strategy'.state.mode = "TREND_LOCK"
                => /\ strategy'.tick = "entered"
                   /\ \E c \in Tradeable :
                         /\ strategy'.state.locked_coin = Coin(c)
                         /\ TriggerCountOf(strategy.state, c) + 1 >= PERSISTENCE_PERIODS)
         /\ (strategy.state.mode = "TREND_LOCK" /\ strategy'.state.mode = "IDLE"
                => \/ strategy.state.locked_coin = None
                   \/ /\ strategy'.tick = "exited"
                      /\ strategy'.signals = [k \in 1 .. EXIT_PERSISTENCE |-> TRUE])
         /\ (strategy'.tick = "steady" => strategy'.state.collapse_count = 0)
         /\ (strategy'.state.mode = "TREND_LOCK" => LockFieldsSet(strategy'.state))
         /\ (strategy'.state.mode = "IDLE" => LockFieldsClear(strategy'.state))]_vars

(* a run that entered TREND_LOCK and left it, on its last tick, on the third
   consecutive collapse signal *)
C34_Witness ==
    /\ mode = "trend"
    /\ strategy.tick = "exited"
    /\ strategy.state.mode = "IDLE"
    /\ strategy.scout_count = CsTicks
    /\ LockFieldsClear(strategy.state)

(* a tick of TREND_LOCK on which the locked coin has no price: the collapse
   count is neither raised nor reset *)
C34_WitnessNoPrice ==
    /\ mode = "trend"
    /\ strategy.tick = "no_price"
    /\ strategy.state.mode = "TREND_LOCK"
    /\ strategy.state.collapse_count = EXIT_PERSISTENCE - 1

(* the same position_states row continues over the step *)
SamePosition ==
    /\ strategy.st # None
    /\ strategy'.st # None
    /\ strategy'.position = strategy.position

(* C35: the ATR trailing stop only moves up. Over every tick that keeps the
   position's row, whatever the price and whether or not the ATR was
   refreshed, stop_price and highest_price do not decrease and trail_active
   does not go from true to false; and trail_active is true after a tick on
   which it was not true before only if, on that tick,
   current_price - entry_price >= k_be_trigger * atr. *)
C35_StopOnlyMovesUp ==
    [][(mode = "atr") =>
         /\ (SamePosition =>
               /\ RLe(strategy.st.stop_price, strategy'.st.stop_price)
               /\ RLe(strategy.st.highest_price, strategy'.st.highest_price)
               /\ (strategy.st.trail_active => strategy'.st.trail_active))
         /\ (strategy'.st # None
               => (strategy'.st.trail_active
                   /\ (SamePosition => ~strategy.st.trail_active)
                     => /\ strategy'.price # None
                        /\ RLe(RMul(k_be_trigger, strategy'.st.atr),
                               RSub(strategy'.price, strategy'.st.entry_price))))]_vars

(* a position whose stop trails a high of 120 while the refreshed ATR has
   grown to 10: the candidate 120 - 1.5 * 10 = 105 lies under the stop *)
C35_Witness ==
    /\ mode = "atr"
    /\ strategy.st # None
    /\ strategy.tick = "held"
    /\ strategy.st.trail_active
    /\ strategy.st.atr = R(10)
    /\ strategy.st.highest_price = R(120)
    /\ RLt(RSub(strategy.st.highest_price, RMul(k_trail_dist, strategy.st.atr)),
           strategy.st.stop_price)

(* the backoff sleeps of a download_pair_data call that has started
   `attempts` attempts: 2^1, ..., 2^(attempts - 1) seconds *)
BackoffOf(attempts) == [k \in 1 .. attempts - 1 |-> 2 ^ k]

DownloadKeepsContract(wk, symbol) ==
    /\ wk.pc # "raised"
    /\ wk.attempts <= max_retries
    /\ wk.sleeps = BackoffOf(wk.attempts)
    /\ (wk.pc = "returned" =>
          /\ wk.result.symbol = symbol
          /\ (wk.result.error = None => wk.result.bars = wk.enqueued)
          /\ (wk.result.error # None =>
                /\ wk.result.bars = 0 /\ wk.result.skipped = 0
                /\ wk.result.error \in {error_msg("Invalid symbol"), error_msg("retries failed")}
                /\ (wk.result.error = error_msg("retries failed") => wk.attempts = max_retries)
                /\ wk.retry_count = wk.attempts))

(* C36: download_pair_data never raises and starts at most max_retries (3)
   attempts; before its k+1-th attempt it has slept 2^k seconds after the
   k-th failure; an 'Invalid symbol' error ends it with (symbol, 0, error, 0)
   without a further attempt or sleep; any other failure result is returned
   only after the third failed attempt, as (symbol, 0, error, 0); and a
   successful attempt returns as its bar count the number of bars that
   attempt put on the queue. *)
C36_DownloadRetries ==
    mode = "prefetch" =>
       \A w \in DOMAIN prefetch.workers :
          DownloadKeepsContract(prefetch.workers[w], w)

(* a download that failed three times: 2 s and 4 s of backoff, then the
   failure result *)
C36_Witness ==
    /\ mode = "prefetch"
    /\ \E w \in DOMAIN prefetch.workers :
          /\ prefetch.workers[w].pc = "returned"
          /\ prefetch.workers[w].result.error = error_msg("retries failed")
          /\ prefetch.workers[w].sleeps = <<2, 4>>

(* a download that enqueued bars, failed, and on its second attempt returned
   the bars of that attempt *)
C36_WitnessRetried ==
    /\ mode = "prefetch"
    /\ \E w \in DOMAIN prefetch.workers :
          /\ prefetch.workers[w].pc = "returned"
          /\ prefetch.workers[w].result.error = None
          /\ prefetch.workers[w].attempts = 2
          /\ prefetch.workers[w].result.bars > 0

(* an 'Invalid symbol' answer on the first attempt *)
C36_WitnessInvalid ==
    /\ mode = "prefetch"
    /\ \E w \in DOMAIN prefetch.workers :
          /\ prefetch.workers[w].pc = "returned"
          /\ prefetch.workers[w].result.error = error_msg("Invalid symbol")
          /\ prefetch.workers[w].attempts = 1

(* open times strictly increase along a sequence of bars *)
OpenTimesIncrease(klines) ==
    \A j \in 1 .. Len(klines) - 1 : klines[j].open_time < klines[j + 1].open_time

(* one pass of the while body of _download_from_binance, read off two
   successive frames *)
DownloadPassKeepsCursor ==
    /\ (download'.pc = "loop" /\ download'.page = download.page + 1 =>
          /\ download'.all_klines # download.all_klines
          /\ download'.current_start > download.current_start
          /\ download'.current_start =
                download'.all_klines[Len(download'.all_klines)].close_time + 1)
    /\ (download.pc = "loop" /\ download'.pc = "done" =>
          /\ download'.all_klines = download.all_klines
          /\ \/ download'.ended = "empty"
             \/ download'.ended = "exception" /\ download.page = download.failAt
             \/ download'.ended = "end"
                /\ download.current_start >= download.end_ms)

(* C37: _download_from_binance terminates. After every non-empty page the
   cursor current_start is the last received bar's close_time + 1 and larger
   than before; the loop ends only on an empty page, on a
   BinanceAPIException, or when current_start has reached end_ms, and it
   does end; the bars collected by one call have strictly increasing open
   times (none is fetched twice) and no two requests start at the same
   cursor; and the result is that of the loop run at once. *)
C37_DownloadTerminates ==
    /\ [][(mode = "download") => DownloadPassKeepsCursor]_vars
    /\ [](mode = "download" =>
            /\ OpenTimesIncrease(download.all_klines)
            /\ \A j, k \in DOMAIN download.starts :
                  j < k => download.starts[j] < download.starts[k]
            /\ (download.pc = "loop" => download.page <= MaxPages)
            /\ (download.pc = "done" =>
                  download.all_klines =
                     download_from_binance(download.symbol, download.interval,
                                           download.start_ms, download.end_ms,
                                           download.failAt).klines))
    /\ <>(mode = "download" => download.pc = "done")

(* a bucket downloaded in three pages, ended by the cursor reaching end_ms *)
C37_Witness ==
    /\ mode = "download"
    /\ download.pc = "done"
    /\ download.ended = "end"
    /\ Len(download.starts) >= 3
    /\ Len(download.all_klines) > PageLimit

(* a download ended by an empty page after a non-empty one *)
C37_WitnessEmpty ==
    /\ mode = "download"
    /\ download.pc = "done"
    /\ download.ended = "empty"
    /\ download.all_klines # <<>>

(* C38: the margin debited by every accepted open of a run is
   price * quantity / leverage with the leverage that was passed to
   BacktestEngine.run, whatever strategy.initialize() handed to
   setup_futures_mode. *)
C38_LeverageIsRunArgument ==
    (mode = "futures" /\ last.op = "trade" /\ last.action = "OPEN"
       /\ last.result # None)
      => RSub(last.before.balance, balance)
            = margin_cost(last.price, last.quantity, run_args.leverage)

(* the margin of every accepted open is computed with the leverage the
   simulator holds, which after strategy.initialize() is the one
   setup_futures_mode was called with *)
MarginUsesSimulatorLeverage ==
    (mode = "futures" /\ last.op = "trade" /\ last.action = "OPEN"
       /\ last.result # None)
      => /\ RSub(last.before.balance, balance)
               = margin_cost(last.price, last.quantity, leverage)
         /\ last.before.leverage = leverage

(* an open accepted in a run started with leverage 3 whose strategy called
   setup_futures_mode(leverage=2) *)
OpenUnderOtherLeverage ==
    /\ mode = "futures" /\ last.op = "trade" /\ last.action = "OPEN"
    /\ last.result # None
    /\ leverage # run_args.leverage

(* C39: in a futures run started from a non-negative initial balance, the
   quote-currency balance is never negative, whatever opens and closes the
   strategy places at the (positive) bar prices. *)
C39_BalanceNeverNegative ==
    (mode = "futures" /\ run_args.initial_balance >= 0) => RLe(R(0), balance)

(* an open never takes the balance below zero: it is refused when the margin
   exceeds the balance *)
OpenKeepsBalanceNonNegative ==
    (mode = "futures" /\ last.op = "trade" /\ last.action = "OPEN"
       /\ RLe(R(0), last.before.balance))
      => RLe(R(0), balance)

(* a close at a loss larger than the margin plus the free balance, in a run
   whose leverage is the one passed to run *)
CloseLeavesDebt ==
    /\ mode = "futures" /\ last.op = "trade" /\ last.action = "CLOSE"
    /\ leverage = run_args.leverage
    /\ last.result # None
    /\ RLe(R(0), last.before.balance)
    /\ RLt(balance, R(0))

(* C40: for every step interval the virtual exchange recognises,
   BacktestEngine._interval_to_ms and BacktestAPIManager._interval_to_ms
   return the same value, so that a run over a range one interval long visits
   its start and its end, one interval's duration apart. *)
C40_StrideIsIntervalDuration ==
    (mode = "futures" /\ run_args.interval \in RecognisedIntervals
       /\ pc \notin {"start", "failed"})
      => /\ engine_interval_to_ms(run_args.interval) = interval_to_ms(run_args.interval)
         /\ timestamps = <<run_args.start_ms, run_args.end_ms>>

(* on the six intervals both tables list, the two functions agree and the run
   visits both ends of the range *)
StrideOnSharedIntervals ==
    (mode = "futures" /\ run_args.interval \in {"1m", "5m", "15m", "1h", "4h", "1d"}
       /\ pc \notin {"start", "failed"})
      => /\ engine_interval_to_ms(run_args.interval) = interval_to_ms(run_args.interval)
         /\ timestamps = <<run_args.start_ms, run_args.end_ms>>

(* a 3m run that has ended after its single tick: the driver strides by one
   hour *)
ThreeMinuteRunHasOneTick ==
    /\ mode = "futures" /\ run_args.interval = "3m"
    /\ pc = "done"
    /\ timestamps = <<run_args.start_ms>>
    /\ engine_interval_to_ms("3m") = 60 * 60 * 1000

====
